---- MODULE Spec2Model ----
(***************************************************************************)
(* Concurrent tri-colour mark-sweep collector (gc.hpp, gc.cpp) and the     *)
(* weak intern set of strings (string.cpp) of qet.                         *)
(*                                                                         *)
(* Every mutex-protected block of the source is one atomic step; every     *)
(* atomic compare-exchange / load / store outside a mutex is one step.     *)
(***************************************************************************)
EXTENDS Integers, Sequences, FiniteSets, TLC

\* ---------------------------------------------------------------- bounds
MaxObjs  == 4          \* object identities the heap may hand out in one run
InitObjs == 3          \* length of the chain of objects built before collect()
MaxOps   == 2          \* operations of one mutator while the collector runs
MaxTotal == 3          \* operations of all mutators while the collector runs
Levels   == 2          \* levels of the ctrie the hash of a string spans
MaxINode == 6          \* INode identities besides the root
MaxCycle == 2          \* collection cycles of a run that drains the ctrie
MaxKeys == 7           \* keys of the tables
DqCount == 2           \* deque: slots of a node (COUNT)
MaxDqNodes == 4        \* deque: nodes a run may allocate
MaxDqPush == 5         \* deque: elements pushed in a run
MaxQOps == 2           \* queue: push and pop calls of one thread

\* ------------------------------------------------------------ constants
GRAY == 2
RED  == 3
NULL == 0

Collector == "C0"
Mutators  == {"M1", "M2"}
Threads   == Mutators \cup {Collector}
Objs      == 1..MaxObjs

VARIABLES
    gWHITE, gALLOC,     \* Global::WHITE, Global::ALLOC
    entrants,           \* Global::entrants
    groots,             \* Global::roots
    chan,               \* the Channel of each thread
    loc,                \* the thread_local Local of each thread
    color, fld, ostate, \* heap: Object::color, one strong field, lifetime
    cpc,                \* collector: position in collect()
    objects, whitelist, blacklist, redlist,   \* collect(): its deques
    mutators, mutators2,                      \* collect(): its channel vectors
    stack,              \* ScanContext::_stack
    ci,                 \* collect(): index of the loop over global.roots
    mpc, reg,           \* mutator: position inside an operation, its locals
    nops,               \* mutator: operations begun
    gar1, gar2,         \* history: unreachable objects owned at start of marking
    strs,               \* the strings this run of the program interns
    skey,               \* SNode::_data of an object that is an SNode, else NoKey
    main,               \* INode::main of every INode of the ctrie
    tr,                 \* locals of the ctrie operation a thread is inside
    hist,               \* history: the last two results of emplace of a mutator
    returned,           \* history: SNodes that Ctrie::emplace has returned
    removed,            \* history: SNodes for which Ctrie::remove has returned
    strong,             \* history: SNodes a TNode or an LNode has referred to
    won,                \* history: <<SNode, in the sweep>> of the upgrades
                        \* WHITE -> BLACK by mutators in this cycle
    asleep,             \* collect(): blocked in condition_variable.wait
    ncycle,             \* history: cycles collect() has completed
    tbl,                \* lox::Table: count, entries (an Array<Entry> or null)
    tarr,               \* gc::Array<Entry>::_data of the arrays
    tlast,              \* history: the last call that changed a table
    tgot,               \* history: result of the tableGet after that call
    bar,                \* history: the Atomic<StrongPtr> call of each mutator
    dq,                 \* gc::deque: its nodes, _begin and _end
    dhist,              \* history: the element sequence and the last call
    msq,                \* MichaelScottQueue: nodes, head, tail, the calls
    rnd                 \* history: the marking round (pass done, dirty read)

gcvars == <<gWHITE, gALLOC, entrants, groots, chan, loc, color, fld, ostate,
            cpc, objects, whitelist, blacklist, redlist, mutators, mutators2,
            stack, ci, mpc, reg, nops, gar1, gar2>>

trievars == <<strs, skey, main, tr, hist, returned, removed, strong, won>>

tablevars == <<tbl, tarr, tlast, tgot>>

libvars == <<dq, dhist, msq, rnd>>

auxvars == <<asleep, ncycle, tablevars, bar, libvars>>

vars == <<gcvars, trievars, auxvars>>

\* ------------------------------------------------------------- helpers
SeqToSet(s) == {s[i] : i \in 1..Len(s)}

SeqWithout(s, x) == SelectSeq(s, LAMBDA y : y # x)

\* Local::BLACK
BLACK(t) == IF loc[t].WHITE = 0 THEN 1 ELSE 0

Xor1(c) == IF c = 0 THEN 1 ELSE IF c = 1 THEN 0 ELSE c

NoChannel == [st |-> "none", pending |-> FALSE, request_infants |-> FALSE,
              dirty |-> FALSE, abandoned |-> FALSE, WHITE |-> -1, ALLOC |-> -1,
              infants |-> <<>>]

NoLocal == [WHITE |-> -1, ALLOC |-> -1, depth |-> 0, dirty |-> FALSE,
            allocations |-> <<>>, roots |-> <<>>, channel |-> FALSE]

NoReg == [a |-> NULL, b |-> NULL, i |-> 0]

\* ----------------------------------------------------------- ctrie data
\* The strings: "a" and "b" have the same hash (string.cpp 567-571,
\* "distinct keys but potentially the same hash"); the hash of "c" differs
\* from it at the last level only.  A run interns the strings of one of the
\* KeySets.
Keys    == {"a", "b", "c"}
KeySets == {{"a", "b"}, {"c"}}
NoKey   == ""

\* CNode::flagpos (string.cpp 512-517): the index (hash >> lev) & 63, with
\* lev counted in levels instead of in bits.
Digit(k, lev) == IF k = "c" /\ lev = Levels - 1 THEN 1 ELSE 0

Digits == {Digit(k, l) : k \in Keys, l \in 0..(Levels - 1)}

\* Ctrie::root and the other INodes
Root   == 0
INodes == 0..MaxINode

\* BNode* entries of CNode::array
NoBranch   == [t |-> "N", x |-> 0]
SBranch(n) == [t |-> "S", x |-> n]
IBranch(i) == [t |-> "I", x |-> i]

EmptyArr == [d \in Digits |-> NoBranch]

\* MNode objects: CNode (bmp, array), TNode (sn), LNode (sn, next).  A
\* TNode or an LNode is the list of its (sn, colour of the list node).
NoMain       == [k |-> "N", arr |-> EmptyArr, list |-> <<>>]
CNodeOf(arr) == [k |-> "C", arr |-> arr, list |-> <<>>]
Entry(n, c)  == [sn |-> n, col |-> c]
TNodeOf(n, c) == [k |-> "T", arr |-> EmptyArr, list |-> <<Entry(n, c)>>]
LNodeOf(l)   == [k |-> "L", arr |-> EmptyArr, list |-> l]

\* locals of Ctrie::emplace / Ctrie::remove and of the functions they call
NoTr == [pc |-> "idle", op |-> "none", q |-> NoKey, k |-> NULL,
         path |-> <<>>, m |-> NoMain, mok |-> FALSE, pm |-> NoMain,
         pmok |-> FALSE, des |-> NoMain, sn |-> NULL, red |-> FALSE,
         old |-> NULL]

NoHist == [q1 |-> NoKey, v1 |-> NULL, hs |-> 0,
           q2 |-> NoKey, v2 |-> NULL, hs2 |-> 0, red |-> FALSE, fresh |-> FALSE,
           old |-> NULL]

\* lox::Table, one for the methods of a class and one for the methods of a
\* class that inherits from it (vm.cpp 527-538)
Tables == {"super", "sub"}

ArrIds == 1..(Cardinality(Tables) + 1)

\* initTable (table.cpp 39-45)
initTable == [count |-> 0, entries |-> NULL]

NoLast == [op |-> "none", t |-> "none", k |-> NULL, v |-> "nil"]

NoGot == [t |-> "none", ok |-> FALSE, value |-> "nil"]

TableIdle ==
    /\ tbl = [t \in Tables |-> initTable]
    /\ tarr = [a \in ArrIds |-> <<>>]
    /\ tlast = NoLast
    /\ tgot = NoGot

NoBar == [op |-> "none", shaded |-> FALSE]

\* gc::deque (deque.hpp): COUNT slots in a node; a slot holds an element or
\* is not constructed (Junk); a pointer into a node is the node and the
\* index of the slot, index DqCount being node->end()
DqNodes == 1..MaxDqNodes

DqInit == DqCount \div 2

Junk == 0

NullPtr == [n |-> 0, i |-> 0]

NoNode == [prev |-> 0, next |-> 0, el |-> [i \in 0..(DqCount - 1) |-> Junk]]

\* deque() : _begin(nullptr), _end(nullptr) (deque.hpp 247-250)
DqIdle ==
    /\ dq = [node |-> [n \in DqNodes |-> NoNode], b |-> NullPtr, e |-> NullPtr]
    /\ dhist = [abs |-> <<>>, op |-> "none", x |-> 0, before |-> <<>>,
                pushed |-> 0]

\* MichaelScottQueue (queue.hpp): node 1 is the sentinel of the constructor
\* (49-52); a value is <<thread, number of the push>>
QNodes == 1..(1 + MaxQOps * Cardinality(Mutators))

NoValue == <<>>

NoCall == [pc |-> "idle", a |-> NULL, b |-> NULL, next |-> NULL,
           expected |-> NULL, ops |-> 0, pushes |-> 0]

MsqIdle ==
    msq = [next |-> [n \in QNodes |-> NULL],
           value |-> [n \in QNodes |-> NoValue],
           made |-> 1, head |-> 1, tail |-> 1,
           call |-> [t \in Mutators |-> NoCall],
           in |-> <<>>, out |-> <<>>,
           freed |-> {}, crashed |-> FALSE]

\* no scanning pass has ended, no channel was asked or read, no dirty flag
\* of an abandoned channel was dropped; whites and grays count the objects
\* of these colours when marking began, reports the channels read dirty in
\* the marking loop since
NoRound == [pass |-> FALSE, dirty |-> FALSE, asked |-> {}, read |-> {},
            owed |-> FALSE, whites |-> 0, grays |-> 0, reports |-> 0]

AuxIdle ==
    /\ asleep = FALSE /\ ncycle = 0 /\ TableIdle
    /\ MsqIdle
    /\ rnd = NoRound
    /\ bar = [m \in Mutators |-> NoBar]
    /\ DqIdle

TrieIdle ==
    /\ tr = [t \in Threads |-> NoTr]
    /\ hist = [m \in Mutators |-> NoHist]
    /\ returned = {} /\ removed = {} /\ strong = {} /\ won = {}

\* The state when the collector thread is started (main.cpp 140-150): the
\* main thread M1 has entered, has built a chain InitObjs -> ... -> 1 of
\* objects (each constructor shades the child it is given, gc.hpp 445-449)
\* and has published the head of the chain in global.roots, the way
\* SNode::enter publishes the ctrie (string.cpp 333-338).
Init ==
    /\ gWHITE = 0 /\ gALLOC = 0
    /\ entrants = <<"M1">>
    /\ groots = <<InitObjs>>
    /\ chan = [t \in Threads |->
                 IF t = "M1"
                 THEN [NoChannel EXCEPT !.st = "open", !.WHITE = 0, !.ALLOC = 0]
                 ELSE NoChannel]
    /\ loc = [t \in Threads |->
                IF t = "M1"
                THEN [NoLocal EXCEPT !.depth = 1, !.channel = TRUE, !.WHITE = 0,
                                     !.ALLOC = 0, !.dirty = (InitObjs > 1),
                                     !.allocations = [i \in 1..InitObjs |-> i]]
                ELSE NoLocal]
    /\ color = [o \in Objs |-> IF o > InitObjs THEN -1
                               ELSE IF o = InitObjs THEN 0 ELSE GRAY]
    /\ fld = [o \in Objs |-> IF o \in 2..InitObjs THEN o - 1 ELSE NULL]
    /\ ostate = [o \in Objs |-> IF o <= InitObjs THEN "live" ELSE "unused"]
    /\ cpc = "start"
    /\ objects = <<>> /\ whitelist = <<>> /\ blacklist = <<>> /\ redlist = <<>>
    /\ mutators = <<>> /\ mutators2 = <<>>
    /\ stack = <<>>
    /\ ci = 0
    /\ mpc = [m \in Mutators |-> "idle"]
    /\ reg = [m \in Mutators |-> NoReg]
    /\ nops = [m \in Mutators |-> 0]
    /\ gar1 = {} /\ gar2 = {}
    /\ strs = {}
    /\ skey = [o \in Objs |-> NoKey]
    /\ main = [i \in INodes |-> NoMain]
    /\ TrieIdle
    /\ AuxIdle

\* -------------------------------------------------- shade (gc.hpp 359-390)
\* Object::_gc_shade: WHITE -> GRAY by compare-exchange, sets local.dirty.
\* ShadeColor is the colours and ShadeDirty the dirty flag of t afterwards.
\* SNode overrides shade (string.hpp 124); it is a leaf, shaded as the SNode
\* of ctrie.hpp 163-169 and as Leaf<T>::_gc_shade (gc.hpp 422-429) are:
\* WHITE -> BLACK, and local.dirty is left alone.
ShadeColorNone(t, o, col) == col

ShadeColor(t, o, col) ==
    IF o # NULL /\ col[o] = loc[t].WHITE
    THEN [col EXCEPT ![o] = IF skey[o] = NoKey THEN GRAY ELSE BLACK(t)]
    ELSE col

ShadeDirtyLeaf(t, o, col) ==
    (o # NULL /\ col[o] = loc[t].WHITE) \/ loc[t].dirty

ShadeDirty(t, o, col) ==
    (o # NULL /\ col[o] = loc[t].WHITE /\ skey[o] = NoKey) \/ loc[t].dirty

\* --------------------------------------------------- enter (gc.cpp 50-72)
enter(t) ==
    /\ loc[t].depth = 0
    /\ chan[t].st = "none"
    /\ chan' = [chan EXCEPT ![t] = [NoChannel EXCEPT !.st = "open",
                                    !.WHITE = gWHITE, !.ALLOC = gALLOC]]
    /\ loc' = [loc EXCEPT ![t].depth = 1, ![t].channel = TRUE,
                          ![t].WHITE = gWHITE, ![t].ALLOC = gALLOC]
    /\ entrants' = Append(entrants, t)

\* -------------------------------------------------- leave (gc.cpp 74-116)
leave(t) ==
    /\ loc[t].depth = 1
    /\ loc[t].channel
    /\ chan' = [chan EXCEPT ![t].pending = FALSE,
                            ![t].abandoned = TRUE,
                            ![t].dirty = loc[t].dirty,
                            ![t].infants = chan[t].infants \o loc[t].allocations,
                            ![t].request_infants = FALSE]
    /\ loc' = [loc EXCEPT ![t].depth = 0, ![t].dirty = FALSE,
                          ![t].allocations = <<>>, ![t].channel = FALSE]

\* --------------------------------------------- handshake (gc.cpp 119-158)
handshakeLockedStale(t) ==
    /\ loc[t].channel
    /\ chan[t].pending
    /\ chan' = [chan EXCEPT ![t].dirty = loc[t].dirty,
                            ![t].infants = IF chan[t].request_infants
                                           THEN loc[t].allocations
                                           ELSE chan[t].infants,
                            ![t].request_infants = FALSE,
                            ![t].pending = FALSE]
    /\ loc' = [loc EXCEPT ![t].dirty = FALSE,
                          ![t].allocations = IF chan[t].request_infants
                                             THEN chan[t].infants
                                             ELSE loc[t].allocations]

\* a locked block that hands over the allocations whether or not the
\* collector requested them
handshakeLockedHandover(t) ==
    /\ loc[t].channel
    /\ chan[t].pending
    /\ chan' = [chan EXCEPT ![t].dirty = loc[t].dirty,
                            ![t].infants = loc[t].allocations,
                            ![t].request_infants = FALSE,
                            ![t].pending = FALSE]
    /\ loc' = [loc EXCEPT ![t].dirty = FALSE,
                          ![t].WHITE = chan[t].WHITE,
                          ![t].ALLOC = chan[t].ALLOC,
                          ![t].allocations = chan[t].infants]

\* The block under the channel mutex, taken when pending is set.
handshakeLocked(t) ==
    /\ loc[t].channel
    /\ chan[t].pending
    /\ chan' = [chan EXCEPT ![t].dirty = loc[t].dirty,
                            ![t].infants = IF chan[t].request_infants
                                           THEN loc[t].allocations
                                           ELSE chan[t].infants,
                            ![t].request_infants = FALSE,
                            ![t].pending = FALSE]
    /\ loc' = [loc EXCEPT ![t].dirty = FALSE,
                          ![t].WHITE = chan[t].WHITE,
                          ![t].ALLOC = chan[t].ALLOC,
                          ![t].allocations = IF chan[t].request_infants
                                             THEN chan[t].infants
                                             ELSE loc[t].allocations]

UnchangedLists ==
    UNCHANGED <<cpc, objects, whitelist, blacklist, redlist, mutators,
                mutators2, stack, ci, gar1, gar2>>

UnchangedIntern ==
    UNCHANGED <<strs, skey, main, tr, returned, removed, strong, won>>

UnchangedTrie == UnchangedIntern /\ UNCHANGED auxvars

UnchangedCollector == UnchangedLists /\ UnchangedTrie /\ UNCHANGED hist

UnchangedHeap == UNCHANGED <<color, fld, ostate>>

UnchangedGlobal == UNCHANGED <<gWHITE, gALLOC, groots>>

\* ------------------------------------------------------------ mutators
\* Every mutator begins at most MaxOps operations, and all of them at most
\* MaxTotal.
Budget(m) == nops[m] < MaxOps /\ nops["M1"] + nops["M2"] < MaxTotal

Count(m) == nops' = [nops EXCEPT ![m] = @ + 1]

Enter(m) ==
    /\ mpc[m] = "idle"
    /\ Budget(m) /\ Count(m)
    /\ enter(m)
    /\ UNCHANGED <<gWHITE, gALLOC, groots, mpc, reg>>
    /\ UnchangedHeap /\ UnchangedCollector

Leave(m) ==
    /\ mpc[m] = "idle"
    /\ Budget(m) /\ Count(m)
    /\ leave(m)
    /\ UNCHANGED <<entrants, mpc, reg>>
    /\ UnchangedGlobal /\ UnchangedHeap /\ UnchangedCollector

\* handshake(): the locked block, then (gc.cpp 160-169) the roots are shaded
\* one at a time outside the mutex.
Handshake(m) ==
    /\ mpc[m] = "idle"
    /\ handshakeLocked(m)
    /\ IF loc[m].roots = <<>>
       THEN UNCHANGED <<mpc, reg>>
       ELSE /\ mpc' = [mpc EXCEPT ![m] = "hs_shade"]
            /\ reg' = [reg EXCEPT ![m].i = 1]
    /\ hist' = [hist EXCEPT ![m].hs2 =
                   IF hist[m].q2 # NoKey /\ @ < 2 THEN @ + 1 ELSE @]
    /\ UNCHANGED <<entrants, nops>>
    /\ UnchangedGlobal /\ UnchangedHeap /\ UnchangedLists /\ UnchangedTrie

HandshakeShade(m) ==
    /\ mpc[m] = "hs_shade"
    /\ LET o == loc[m].roots[reg[m].i] IN
        /\ color' = ShadeColor(m, o, color)
        /\ loc' = [loc EXCEPT ![m].dirty = ShadeDirty(m, o, color)]
    /\ IF reg[m].i = Len(loc[m].roots)
       THEN /\ mpc' = [mpc EXCEPT ![m] = "idle"]
            /\ reg' = [reg EXCEPT ![m] = NoReg]
       ELSE /\ reg' = [reg EXCEPT ![m].i = reg[m].i + 1]
            /\ UNCHANGED mpc
    /\ UNCHANGED <<entrants, chan, fld, ostate, nops>>
    /\ UnchangedGlobal /\ UnchangedCollector

\* Object::Object (gc.hpp 373-377): colour local.ALLOC, appended to
\* local.allocations; its strong field is constructed from v, which shades
\* v (gc.hpp 445-449).  The mutator keeps the new object in a root and,
\* following the barrier discipline, shades what it stores into a root.
FreshObj == CHOOSE o \in Objs : ostate[o] = "unused" /\
                 \A p \in Objs : ostate[p] = "unused" => o <= p

AllocRoot(m) ==
    /\ mpc[m] = "idle"
    /\ loc[m].depth > 0
    /\ Budget(m) /\ Count(m)
    /\ \E o \in Objs : ostate[o] = "unused"
    /\ \E v \in SeqToSet(loc[m].roots) \cup {NULL} :
       LET o == FreshObj
           c1 == ShadeColor(m, v, [color EXCEPT ![o] = loc[m].ALLOC])
       IN
        /\ ostate' = [ostate EXCEPT ![o] = "live"]
        /\ fld' = [fld EXCEPT ![o] = v]
        /\ color' = ShadeColor(m, o, c1)
        /\ loc' = [loc EXCEPT ![m].allocations = Append(@, o),
                              ![m].roots = Append(@, o),
                              ![m].dirty = ShadeDirty(m, v, color)
                                           \/ ShadeDirty(m, o, c1)]
    /\ UNCHANGED <<entrants, chan, mpc, reg>>
    /\ UnchangedGlobal /\ UnchangedCollector

DropRoot(m) ==
    /\ mpc[m] = "idle"
    /\ Budget(m) /\ Count(m)
    /\ \E r \in SeqToSet(loc[m].roots) :
        loc' = [loc EXCEPT ![m].roots = SeqWithout(@, r)]
    /\ UNCHANGED <<entrants, chan, mpc, reg>>
    /\ UnchangedGlobal /\ UnchangedHeap /\ UnchangedCollector

\* load of a strong field (gc.hpp 451-454: no shade), then the loaded
\* pointer is stored into a root, which shades it.  The field is one of a
\* root of the thread or of a global root.
Load(m) ==
    /\ mpc[m] = "idle"
    /\ loc[m].depth > 0
    /\ Budget(m) /\ Count(m)
    /\ \E r \in SeqToSet(loc[m].roots) \cup SeqToSet(groots) :
        /\ fld[r] # NULL
        /\ fld[r] \notin SeqToSet(loc[m].roots)
        /\ reg' = [reg EXCEPT ![m].a = fld[r]]
    /\ mpc' = [mpc EXCEPT ![m] = "ld1"]
    /\ UNCHANGED <<entrants, chan, loc>>
    /\ UnchangedGlobal /\ UnchangedHeap /\ UnchangedCollector

LoadRoot(m) ==
    /\ mpc[m] = "ld1"
    /\ color' = ShadeColor(m, reg[m].a, color)
    /\ loc' = [loc EXCEPT ![m].roots = Append(@, reg[m].a),
                          ![m].dirty = ShadeDirty(m, reg[m].a, color)]
    /\ mpc' = [mpc EXCEPT ![m] = "idle"]
    /\ reg' = [reg EXCEPT ![m] = NoReg]
    /\ UNCHANGED <<entrants, chan, fld, ostate, nops>>
    /\ UnchangedGlobal /\ UnchangedCollector

\* Atomic<StrongPtr<T>>::store (gc.hpp 456-461): shade(desired);
\* old = inner.exchange(desired); shade(old).
Store1(m) ==
    /\ mpc[m] = "idle"
    /\ loc[m].depth > 0
    /\ Budget(m) /\ Count(m)
    /\ \E r \in SeqToSet(loc[m].roots) :
       \E v \in SeqToSet(loc[m].roots) \cup {NULL} :
        /\ v # r
        /\ fld[r] # v
        /\ reg' = [reg EXCEPT ![m].a = r, ![m].b = v]
        /\ color' = ShadeColor(m, v, color)
        /\ loc' = [loc EXCEPT ![m].dirty = ShadeDirty(m, v, color)]
    /\ mpc' = [mpc EXCEPT ![m] = "st1"]
    /\ UNCHANGED <<entrants, chan, fld, ostate>>
    /\ UnchangedGlobal /\ UnchangedCollector

Store2(m) ==
    /\ mpc[m] = "st1"
    /\ fld' = [fld EXCEPT ![reg[m].a] = reg[m].b]
    /\ reg' = [reg EXCEPT ![m].a = fld[reg[m].a], ![m].b = NULL]
    /\ mpc' = [mpc EXCEPT ![m] = "st2"]
    /\ UNCHANGED <<entrants, chan, loc, color, ostate, nops>>
    /\ UnchangedGlobal /\ UnchangedCollector

Store3(m) ==
    /\ mpc[m] = "st2"
    /\ color' = ShadeColor(m, reg[m].a, color)
    /\ loc' = [loc EXCEPT ![m].dirty = ShadeDirty(m, reg[m].a, color)]
    /\ mpc' = [mpc EXCEPT ![m] = "idle"]
    /\ reg' = [reg EXCEPT ![m] = NoReg]
    /\ UNCHANGED <<entrants, chan, fld, ostate, nops>>
    /\ UnchangedGlobal /\ UnchangedCollector

\* ------------------------------------------------------------ collector
UnchangedMutators == UNCHANGED <<mpc, reg, nops, hist>> /\ UnchangedTrie

\* the frame of a collector step that writes the history of the round
UnchangedButRound ==
    /\ UNCHANGED <<mpc, reg, nops, hist>> /\ UnchangedIntern
    /\ UNCHANGED <<asleep, ncycle, tablevars, bar, dq, dhist, msq>>

\* collect() lines 455-458: if (channel->dirty) local.dirty = true
absorbLast(ld, cd) == cd

absorbAlways(ld, cd) == TRUE

absorb(ld, cd) == ld \/ cd

\* collect() lines 418-421, on a channel found abandoned by the request
\* loop of Phase B
takeDirtyNone(ld, cd) == ld

takeDirty(ld, cd) == ld \/ cd

Back(s) == s[Len(s)]
PopBack(s) == SubSeq(s, 1, Len(s) - 1)

\* objects reachable through strong fields from a set of objects
RECURSIVE ReachFrom(_, _)
ReachFrom(seen, frontier) ==
    IF frontier = {} THEN seen
    ELSE LET nxt == {fld[o] : o \in {p \in frontier : ostate[p] = "live"}}
                      \ ({NULL} \cup seen \cup frontier)
         IN ReachFrom(seen \cup frontier, nxt)

\* global roots and the roots the live mutators shade at their handshakes
RootSet == SeqToSet(groots) \cup
           UNION {SeqToSet(loc[m].roots) : m \in {t \in Mutators : loc[t].depth > 0}}

\* pointers a mutator holds in the middle of a barriered operation
HeldSet == {reg[m].a : m \in {t \in Mutators : mpc[t] \in {"ld1", "st1", "st2"}}}
           \cup {reg[m].b : m \in {t \in Mutators : mpc[t] \in {"st1"}}}

Reachable == ReachFrom({}, RootSet \ {NULL})
ReachableOrHeld == ReachFrom({}, (RootSet \cup HeldSet) \ {NULL})

\* collect() line 177: gc::enter()
CStart ==
    /\ cpc = "start"
    /\ enter(Collector)
    /\ cpc' = "A_pub"
    /\ UNCHANGED <<gWHITE, gALLOC, groots, objects, whitelist, blacklist,
                   redlist, mutators, mutators2, stack, ci, gar1, gar2>>
    /\ UnchangedHeap /\ UnchangedMutators

\* collect() lines 216-222: local.ALLOC = local.BLACK(), published under
\* the global mutex.
APublish ==
    /\ cpc = "A_pub"
    /\ loc' = [loc EXCEPT ![Collector].ALLOC = BLACK(Collector)]
    /\ gWHITE' = loc[Collector].WHITE
    /\ gALLOC' = BLACK(Collector)
    /\ cpc' = "A_accept"
    /\ won' = {}
    /\ UNCHANGED <<entrants, groots, chan, objects, whitelist, blacklist,
                   redlist, mutators, mutators2, stack, ci, gar1, gar2>>
    /\ UNCHANGED <<mpc, reg, nops, hist, strs, auxvars, skey, main, tr, returned,
                   removed, strong>>
    /\ UnchangedHeap

\* accept_entrants (gc.cpp 191-208)
accept_entrants(next) ==
    /\ mutators' = mutators \o entrants
    /\ entrants' = <<>>
    /\ cpc' = next
    /\ UNCHANGED <<gWHITE, gALLOC, groots, chan, loc, objects, whitelist,
                   blacklist, redlist, mutators2, stack, ci, gar1, gar2>>
    /\ UnchangedHeap /\ UnchangedMutators

AAccept == cpc = "A_accept" /\ accept_entrants("A_req")
BAccept == cpc = "B_accept" /\ accept_entrants("B_req")
DAccept == cpc = "D_accept" /\ accept_entrants("D_req")

\* collect() lines 238-261: request handshake and handover of infants
ARequest ==
    /\ cpc = "A_req"
    /\ mutators # <<>>
    /\ LET c == Back(mutators) IN
        /\ mutators' = PopBack(mutators)
        /\ IF ~chan[c].abandoned
           THEN /\ chan' = [chan EXCEPT ![c].pending = TRUE,
                                        ![c].request_infants = TRUE,
                                        ![c].ALLOC = loc[Collector].ALLOC]
                /\ mutators2' = Append(mutators2, c)
                /\ UNCHANGED <<objects, rnd>>
           ELSE /\ chan' = [chan EXCEPT ![c].st = "deleted",
                                        ![c].infants = <<>>,
                                        ![c].ALLOC = loc[Collector].ALLOC]
                /\ objects' = objects \o chan[c].infants
                /\ rnd' = [rnd EXCEPT !.owed = @ \/ chan[c].dirty]
                /\ UNCHANGED mutators2
    /\ IF Len(mutators) = 1
       THEN cpc' = "A_groots" /\ ci' = 1
       ELSE UNCHANGED <<cpc, ci>>
    /\ UNCHANGED <<gWHITE, gALLOC, groots, entrants, loc, whitelist,
                   blacklist, redlist, stack, gar1, gar2>>
    /\ UnchangedHeap /\ UnchangedButRound

\* collect() lines 263-272: shade the global roots, one per step
AShadeRoots ==
    /\ cpc = "A_groots"
    /\ ci <= Len(groots)
    /\ color' = ShadeColor(Collector, groots[ci], color)
    /\ loc' = [loc EXCEPT ![Collector].dirty =
                              ShadeDirty(Collector, groots[ci], color)]
    /\ ci' = ci + 1
    /\ UNCHANGED <<gWHITE, gALLOC, groots, entrants, chan, fld, ostate, cpc,
                   objects, whitelist, blacklist, redlist, mutators,
                   mutators2, stack, gar1, gar2>>
    /\ UnchangedMutators

\* collect() lines 275, 438, 566: gc::handshake() on the collector itself
\* (its local.roots is empty, so nothing is shaded afterwards)
selfHandshake(next) ==
    /\ IF chan[Collector].pending
       THEN handshakeLocked(Collector)
       ELSE UNCHANGED <<chan, loc>>
    /\ cpc' = next
    /\ ci' = 0
    /\ UNCHANGED <<gWHITE, gALLOC, groots, entrants, objects, whitelist,
                   blacklist, redlist, mutators, mutators2, stack, gar1, gar2>>
    /\ UnchangedHeap /\ UnchangedMutators

ASelf == cpc = "A_groots" /\ ci > Len(groots) /\ selfHandshake("A_recv")
BSelf == cpc = "B_self" /\ selfHandshake("B_recv")
DSelf == cpc = "D_self" /\ selfHandshake("D_recv")

\* a wait that any state of the channel ends
acknowledgedAny(c) == TRUE

\* collect() lines 284-285, 446-447, 575-576: the wait under the channel
\* mutex ends when the channel is abandoned or pending is clear
acknowledged(c) == chan[c].abandoned \/ ~chan[c].pending

\* the objects that exist and have colour c
Colored(c) == {o \in Objs : ostate[o] = "live" /\ color[o] = c}

\* collect() lines 278-298: receive acknowledgements and recent allocations
AReceive ==
    /\ cpc = "A_recv"
    /\ ~asleep
    /\ mutators2 # <<>>
    /\ LET c == Back(mutators2)
           objs2 == objects \o chan[c].infants
       IN
        /\ acknowledged(c)
        /\ mutators2' = PopBack(mutators2)
        /\ objects' = objs2
        /\ IF ~chan[c].abandoned
           THEN /\ chan' = [chan EXCEPT ![c].dirty = FALSE,
                                        ![c].infants = <<>>]
                /\ mutators' = Append(mutators, c)
           ELSE /\ chan' = [chan EXCEPT ![c].st = "deleted",
                                        ![c].dirty = FALSE,
                                        ![c].infants = <<>>]
                /\ UNCHANGED mutators
        /\ IF Len(mutators2) = 1
           THEN /\ cpc' = "B_pass"
                /\ loc' = [loc EXCEPT ![Collector].dirty = FALSE]
                /\ gar2' = gar1
                /\ gar1' = SeqToSet(objs2) \ ReachableOrHeld
           ELSE UNCHANGED <<cpc, loc, gar1, gar2>>
    /\ rnd' = [NoRound EXCEPT
                 !.owed = rnd.owed \/ (chan[Back(mutators2)].abandoned
                                           /\ chan[Back(mutators2)].dirty),
                 !.whites = IF Len(mutators2) = 1
                            THEN Cardinality(Colored(loc[Collector].WHITE))
                            ELSE 0,
                 !.grays = IF Len(mutators2) = 1
                           THEN Cardinality(Colored(GRAY)) ELSE 0]
    /\ UNCHANGED <<gWHITE, gALLOC, groots, entrants, whitelist, blacklist,
                   redlist, stack, ci>>
    /\ UnchangedHeap /\ UnchangedButRound

\* collect() lines 358-386: one object of the scanning pass.  The
\* compare-exchange GRAY -> BLACK reports the colour it found.
BVisit ==
    /\ cpc = "B_pass"
    /\ objects # <<>>
    /\ LET o == Head(objects)
           found == color[o]
       IN
        /\ objects' = Tail(objects)
        /\ IF found = BLACK(Collector)
           THEN /\ blacklist' = Append(blacklist, o)
                /\ UNCHANGED <<color, whitelist, stack, cpc>>
           ELSE IF found = GRAY
           THEN /\ color' = [color EXCEPT ![o] = BLACK(Collector)]
                /\ blacklist' = Append(blacklist, o)
                /\ stack' = <<o>>
                /\ cpc' = "B_scan"
                /\ UNCHANGED whitelist
           ELSE IF found = loc[Collector].WHITE
           THEN /\ whitelist' = Append(whitelist, o)
                /\ UNCHANGED <<color, blacklist, stack, cpc>>
           ELSE /\ cpc' = "abort"
                /\ UNCHANGED <<color, whitelist, blacklist, stack>>
    /\ UNCHANGED <<gWHITE, gALLOC, groots, entrants, chan, loc, fld, ostate,
                   redlist, mutators, mutators2, ci, gar1, gar2>>
    /\ UnchangedMutators

\* object->scan(working) and ScanContextPrivate::process (gc.cpp 39-46):
\* the strong field of the object on top of the stack is loaded and
\* Object::_gc_scan_into (gc.hpp 392-403) turns a WHITE target BLACK and
\* pushes it.
BScan ==
    /\ cpc = "B_scan"
    /\ stack # <<>>
    /\ LET o == Back(stack)
           c == fld[o]
           push == c # NULL /\ color[c] = loc[Collector].WHITE
           stack2 == IF push THEN Append(PopBack(stack), c) ELSE PopBack(stack)
       IN
        /\ color' = IF push THEN [color EXCEPT ![c] = BLACK(Collector)] ELSE color
        /\ stack' = stack2
        /\ cpc' = IF stack2 = <<>> THEN "B_pass" ELSE "B_scan"
    /\ UNCHANGED <<gWHITE, gALLOC, groots, entrants, chan, loc, fld, ostate,
                   objects, whitelist, blacklist, redlist, mutators, mutators2,
                   ci, gar1, gar2>>
    /\ UnchangedMutators

\* collect() lines 388-389: swap(objects, whitelist); while (local.dirty)
BPassEnd ==
    /\ cpc = "B_pass"
    /\ objects = <<>>
    /\ objects' = whitelist
    /\ whitelist' = <<>>
    /\ IF loc[Collector].dirty
       THEN /\ loc' = [loc EXCEPT ![Collector].dirty = FALSE]
            /\ UNCHANGED <<cpc, rnd>>
       ELSE /\ cpc' = "B_accept"
            /\ rnd' = [rnd EXCEPT !.pass = TRUE, !.dirty = FALSE,
                                  !.asked = {}, !.read = {}, !.owed = FALSE]
            /\ UNCHANGED loc
    /\ UNCHANGED <<gWHITE, gALLOC, groots, entrants, chan, blacklist, redlist,
                   mutators, mutators2, stack, ci, gar1, gar2>>
    /\ UnchangedHeap /\ UnchangedButRound

\* collect() lines 407-436: request a handshake of every channel
BRequest ==
    /\ cpc = "B_req"
    /\ mutators # <<>>
    /\ LET c == Back(mutators) IN
        /\ mutators' = PopBack(mutators)
        /\ IF ~chan[c].abandoned
           THEN /\ chan' = [chan EXCEPT ![c].pending = TRUE]
                /\ mutators2' = Append(mutators2, c)
                /\ rnd' = [rnd EXCEPT !.asked = @ \cup {c}]
                /\ UNCHANGED <<objects, loc>>
           ELSE /\ chan' = [chan EXCEPT ![c].st = "deleted",
                                        ![c].dirty = FALSE,
                                        ![c].infants = <<>>]
                /\ loc' = [loc EXCEPT ![Collector].dirty =
                                          takeDirty(@, chan[c].dirty)]
                /\ rnd' = [rnd EXCEPT !.asked = @ \cup {c},
                                      !.read = @ \cup {c},
                                      !.dirty = @ \/ chan[c].dirty,
                                      !.reports = IF chan[c].dirty
                                                  THEN @ + 1 ELSE @,
                                      !.owed = @ \/ (chan[c].dirty
                                          /\ ~loc'[Collector].dirty)]
                /\ objects' = objects \o chan[c].infants
                /\ UNCHANGED mutators2
    /\ cpc' = IF Len(mutators) = 1 THEN "B_self" ELSE "B_req"
    /\ UNCHANGED <<gWHITE, gALLOC, groots, entrants, whitelist, blacklist,
                   redlist, stack, ci, gar1, gar2>>
    /\ UnchangedHeap /\ UnchangedButRound

\* collect() lines 440-474: receive the acknowledgements, absorb dirty,
\* then leave the marking loop when nobody reported dirty.
BReceive ==
    /\ cpc = "B_recv"
    /\ ~asleep
    /\ mutators2 # <<>>
    /\ LET c == Back(mutators2)
           d == absorb(loc[Collector].dirty, chan[c].dirty)
       IN
        /\ acknowledged(c)
        /\ mutators2' = PopBack(mutators2)
        /\ rnd' = [rnd EXCEPT !.read = @ \cup {c},
                              !.dirty = @ \/ chan[c].dirty,
                              !.reports = IF chan[c].dirty THEN @ + 1 ELSE @,
                              !.owed = @ \/ (chan[c].abandoned
                                              /\ chan[c].dirty /\ ~d)]
        /\ IF ~chan[c].abandoned
           THEN /\ chan' = [chan EXCEPT ![c].dirty = FALSE]
                /\ mutators' = Append(mutators, c)
                /\ UNCHANGED objects
           ELSE /\ chan' = [chan EXCEPT ![c].st = "deleted",
                                        ![c].dirty = FALSE,
                                        ![c].infants = <<>>]
                /\ objects' = objects \o chan[c].infants
                /\ UNCHANGED mutators
        /\ IF Len(mutators2) = 1
           THEN /\ cpc' = IF d THEN "B_pass" ELSE "C_sweep"
                /\ loc' = [loc EXCEPT ![Collector].dirty = FALSE]
           ELSE /\ loc' = [loc EXCEPT ![Collector].dirty = d]
                /\ UNCHANGED cpc
    /\ UNCHANGED <<gWHITE, gALLOC, groots, entrants, whitelist, blacklist,
                   redlist, stack, ci, gar1, gar2>>
    /\ UnchangedHeap /\ UnchangedButRound

\* Ctrie::remove(k) is entered (string.cpp 722-730)
RemoveRegs(o) == [NoTr EXCEPT !.pc = "ir_load", !.op = "remove", !.k = o,
                              !.path = <<Root>>]

\* a sweep that turns an SNode RED whatever colour it finds
sweepAlways(found) == TRUE

\* SNode::_gc_sweep (string.cpp 241-270): the colour found by the
\* compare-exchange WHITE -> RED decides.
sweepWins(found) == found = loc[Collector].WHITE

\* collect() lines 491-508 with Object::_gc_sweep (gc.hpp 405-411): a
\* WHITE object is deleted, a BLACK one goes to the black list, a RED one
\* to the red list; any other colour leaves the object in no list.  An
\* SNode that the sweep turns RED is first removed from the ctrie.
CSweep ==
    /\ cpc = "C_sweep"
    /\ objects # <<>>
    /\ LET o == Head(objects)
           found == color[o]
           leaf == skey[o] # NoKey
           wins == leaf /\ sweepWins(found)
           gone == IF leaf THEN found = RED ELSE found = loc[Collector].WHITE
       IN
        /\ objects' = Tail(objects)
        /\ color' = IF wins THEN [color EXCEPT ![o] = RED] ELSE color
        /\ ostate' = IF gone THEN [ostate EXCEPT ![o] = "freed"] ELSE ostate
        /\ blacklist' = IF found = BLACK(Collector)
                        THEN Append(blacklist, o) ELSE blacklist
        /\ redlist' = IF ~leaf /\ found = RED
                      THEN Append(redlist, o) ELSE redlist
        /\ tr' = IF wins THEN [tr EXCEPT ![Collector] = RemoveRegs(o)] ELSE tr
        /\ cpc' = IF wins THEN "C_remove"
                  ELSE IF leaf /\ found \notin {BLACK(Collector), RED}
                  THEN "abort" ELSE cpc
    /\ UNCHANGED <<gWHITE, gALLOC, groots, entrants, chan, loc, fld,
                   whitelist, mutators, mutators2, stack, ci, gar1, gar2>>
    /\ UNCHANGED <<mpc, reg, nops, hist, strs, auxvars, skey, main, returned,
                   removed, strong, won>>

\* Every object that survives the sweep is BLACK, and the flip makes it
\* WHITE: the list nodes of the ctrie take the colour w.
FlipMain(mr, w) ==
    IF mr.list = <<>> THEN mr
    ELSE [mr EXCEPT !.list = [j \in 1..Len(mr.list) |->
                                  Entry(mr.list[j].sn, w)]]

FlipTr(r, w) == [r EXCEPT !.m = FlipMain(r.m, w), !.pm = FlipMain(r.pm, w),
                          !.des = FlipMain(r.des, w)]

\* collect() lines 525-530: reinterpret BLACK as WHITE
DFlip ==
    /\ cpc = "C_sweep"
    /\ objects = <<>>
    /\ loc' = [loc EXCEPT ![Collector].WHITE = BLACK(Collector)]
    /\ gWHITE' = BLACK(Collector)
    /\ cpc' = "D_accept"
    /\ main' = [i \in INodes |-> FlipMain(main[i], BLACK(Collector))]
    /\ tr' = [t \in Threads |-> FlipTr(tr[t], BLACK(Collector))]
    /\ UNCHANGED <<gALLOC, groots, entrants, chan, objects, whitelist,
                   blacklist, redlist, mutators, mutators2, stack, ci,
                   gar1, gar2>>
    /\ UNCHANGED <<mpc, reg, nops, hist, strs, auxvars, skey, returned, removed,
                   strong, won>>
    /\ UnchangedHeap

\* collect() lines 536-564: publish the new WHITE on every channel
DRequest ==
    /\ cpc = "D_req"
    /\ mutators # <<>>
    /\ LET c == Back(mutators) IN
        /\ mutators' = PopBack(mutators)
        /\ IF ~chan[c].abandoned
           THEN /\ chan' = [chan EXCEPT ![c].pending = TRUE,
                                        ![c].WHITE = loc[Collector].WHITE,
                                        ![c].ALLOC = loc[Collector].ALLOC]
                /\ mutators2' = Append(mutators2, c)
                /\ UNCHANGED <<objects, rnd>>
           ELSE /\ chan' = [chan EXCEPT ![c].st = "deleted",
                                        ![c].infants = <<>>,
                                        ![c].WHITE = loc[Collector].WHITE,
                                        ![c].ALLOC = loc[Collector].ALLOC]
                /\ objects' = objects \o chan[c].infants
                /\ rnd' = [rnd EXCEPT !.owed = @ \/ chan[c].dirty]
                /\ UNCHANGED mutators2
    /\ cpc' = IF Len(mutators) = 1 THEN "D_self" ELSE "D_req"
    /\ UNCHANGED <<gWHITE, gALLOC, groots, entrants, loc, whitelist,
                   blacklist, redlist, stack, ci, gar1, gar2>>
    /\ UnchangedHeap /\ UnchangedButRound

\* collect() lines 568-597: receive the acknowledgements of the new epoch
DReceive ==
    /\ cpc = "D_recv"
    /\ ~asleep
    /\ mutators2 # <<>>
    /\ LET c == Back(mutators2) IN
        /\ acknowledged(c)
        /\ mutators2' = PopBack(mutators2)
        /\ loc' = [loc EXCEPT ![Collector].dirty = @ \/ chan[c].dirty]
        /\ rnd' = [rnd EXCEPT !.owed = @ \/ (chan[c].abandoned
                                  /\ chan[c].dirty /\ ~loc'[Collector].dirty)]
        /\ IF ~chan[c].abandoned
           THEN /\ chan' = [chan EXCEPT ![c].dirty = FALSE]
                /\ mutators' = Append(mutators, c)
                /\ UNCHANGED objects
           ELSE /\ chan' = [chan EXCEPT ![c].st = "deleted",
                                        ![c].dirty = FALSE,
                                        ![c].infants = <<>>]
                /\ objects' = objects \o chan[c].infants
                /\ UNCHANGED mutators
    /\ cpc' = IF Len(mutators2) = 1 THEN "D_reds" ELSE "D_recv"
    /\ UNCHANGED <<gWHITE, gALLOC, groots, entrants, whitelist, blacklist,
                   redlist, stack, ci, gar1, gar2>>
    /\ UnchangedHeap /\ UnchangedButRound

\* collect() lines 601-617: delete the red list, then the black list
\* becomes the object list of the next cycle.
claimRedsNone(os, reds) == os

\* collect() lines 600-609: every object of the red list is deleted
claimReds(os, reds) ==
    [o \in Objs |-> IF o \in SeqToSet(reds) THEN "freed" ELSE os[o]]

DRedsRun ==
    /\ cpc = "D_reds"
    /\ ostate' = claimReds(ostate, redlist)
    /\ redlist' = <<>>
    /\ objects' = objects \o blacklist
    /\ blacklist' = <<>>
    /\ cpc' = "A_pub"
    /\ UNCHANGED <<gWHITE, gALLOC, groots, entrants, chan, loc, color, fld,
                   whitelist, mutators, mutators2, stack, ci, gar1, gar2>>
    /\ UNCHANGED <<mpc, reg, nops, hist>> /\ UnchangedIntern

DReds == DRedsRun /\ UNCHANGED auxvars

\* ------------------------------------------------------------ ctrie
\* INodes that the trie or a thread inside an operation refers to.  An INode
\* nothing refers to is reclaimed, and its identity is handed out again.
ArrINodes(mr) == {mr.arr[d].x : d \in {e \in Digits : mr.arr[e].t = "I"}}

RECURSIVE ReachI(_, _, _)
ReachI(mn, seen, frontier) ==
    IF frontier = {} THEN seen
    ELSE LET nxt == (UNION {ArrINodes(mn[i]) : i \in frontier})
                      \ (seen \cup frontier)
         IN ReachI(mn, seen \cup frontier, nxt)

HeldI(trr) ==
    UNION {SeqToSet(trr[t].path) \cup ArrINodes(trr[t].m)
           \cup ArrINodes(trr[t].pm) \cup ArrINodes(trr[t].des) : t \in Threads}

InUse(mn, trr) == ReachI(mn, {}, {Root} \cup HeldI(trr))

Norm(mn, trr) ==
    LET used == InUse(mn, trr) IN
    [i \in INodes |-> IF i \in used THEN mn[i] ELSE NoMain]

RECURSIVE Smallest(_, _)
Smallest(S, n) ==
    IF n = 0 \/ S = {} THEN <<>>
    ELSE LET x == CHOOSE y \in S : \A z \in S : y <= z
         IN <<x>> \o Smallest(S \ {x}, n - 1)

FreeI == INodes \ InUse(main, tr)

\* SNodes the trie holds: reachable from Ctrie::root as a CNode branch, in a
\* TNode or in an LNode
TrieINodes == ReachI(main, {}, {Root})

SNodesOf(mr) == {mr.arr[d].x : d \in {e \in Digits : mr.arr[e].t = "S"}}
                \cup {mr.list[j].sn : j \in 1..Len(mr.list)}

TrieSNodes == UNION {SNodesOf(main[i]) : i \in TrieINodes}

StrongOf(mn) == UNION {{mn[i].list[j].sn : j \in 1..Len(mn[i].list)} : i \in INodes}

\* A compare-exchange on INode::main succeeds iff the INode still holds
\* the node the thread loaded.  Every node that is installed is newly
\* allocated, so that is the case iff no compare-exchange on this INode has
\* succeeded since the load: a success marks the loads of the others stale.
Invalidated(r, i) ==
    [r EXCEPT !.mok = @ /\ ~(r.path # <<>> /\ Back(r.path) = i),
              !.pmok = @ /\ ~(Len(r.path) > 1 /\ r.path[Len(r.path) - 1] = i)]

Invalidate(trr, t, i) ==
    [u \in Threads |-> IF u = t THEN trr[u] ELSE Invalidated(trr[u], i)]

\* RESTART: Ctrie::emplace / Ctrie::remove loop again from the root
Restart(r) ==
    [r EXCEPT !.pc = IF r.op = "emplace" THEN "ii_load" ELSE "ir_load",
              !.path = <<Root>>, !.m = NoMain, !.mok = FALSE, !.pm = NoMain,
              !.pmok = FALSE, !.des = NoMain, !.sn = NULL, !.red = FALSE,
              !.old = NULL]

\* toContracted without the test of lev: the root's CNode is entombed too
toContractedRoot(cn, lev, c) ==
    LET used == {d \in Digits : cn.arr[d].t # "N"} IN
    IF Cardinality(used) # 1 THEN cn
    ELSE LET b == cn.arr[CHOOSE d \in used : TRUE] IN
         IF b.t = "S" THEN TNodeOf(b.x, c) ELSE cn

\* toContracted (string.cpp 153-158), SNode::_contract -> entomb (173-178),
\* INode::_contract (208-210).  c is the colour a new TNode is given.
toContracted(cn, lev, c) ==
    LET used == {d \in Digits : cn.arr[d].t # "N"} IN
    IF lev = 0 \/ Cardinality(used) # 1 THEN cn
    ELSE LET b == cn.arr[CHOOSE d \in used : TRUE] IN
         IF b.t = "S" THEN TNodeOf(b.x, c) ELSE cn

\* resurrect (string.cpp 136-138): INode::_resurrect loads main, and a
\* TNode gives its sn.
resurrect(b) ==
    IF b.t = "I" /\ main[b.x].k = "T" THEN SBranch(main[b.x].list[1].sn) ELSE b

\* toCompressed (string.cpp 140-151)
toCompressed(cn, lev, c) ==
    toContracted(CNodeOf([d \in Digits |-> resurrect(cn.arr[d])]), lev, c)

\* CNode::make(sn1, sn2, lev) (string.cpp 567-603) with the INodes it
\* allocates: the main nodes of ids[1], ids[2], ... in turn.  q is the
\* string of sn2, the SNode that SNode::_emplace has just made.
RECURSIVE makeChain(_, _, _, _, _, _)
makeChain(s1, s2, q, lev, ids, c) ==
    LET d1 == Digit(skey[s1], lev)
        d2 == Digit(q, lev)
    IN IF d1 # d2
       THEN <<CNodeOf([d \in Digits |-> IF d = d1 THEN SBranch(s1)
                                        ELSE IF d = d2 THEN SBranch(s2)
                                        ELSE NoBranch])>>
       ELSE IF lev + 1 < Levels
       THEN <<CNodeOf([EmptyArr EXCEPT ![d1] = IBranch(ids[2])])>>
            \o makeChain(s1, s2, q, lev + 1, Tail(ids), c)
       ELSE <<CNodeOf([EmptyArr EXCEPT ![d1] = IBranch(ids[2])]),
              LNodeOf(<<Entry(s2, c), Entry(s1, c)>>)>>

\* LNode::inserted (string.cpp 399-436): the first list node whose string
\* equals the query is replaced by a node for the new SNode n and the
\* nodes before it are copied; with no such node, n is prepended.
inserted(l, q, n, c) ==
    LET match == {j \in 1..Len(l) : skey[l[j].sn] = q} IN
    IF match = {} THEN <<Entry(n, c)>> \o l
    ELSE LET j == CHOOSE x \in match : \A y \in match : x <= y IN
         [x \in 1..Len(l) |-> IF x < j THEN Entry(l[x].sn, c)
                              ELSE IF x = j THEN Entry(n, c) ELSE l[x]]

\* LNode::removed (string.cpp 438-472): the list without the node of k
lremoved(l, k, c) ==
    LET match == {j \in 1..Len(l) : l[j].sn = k} IN
    IF match = {} THEN l
    ELSE LET j == CHOOSE x \in match : \A y \in match : x <= y IN
         IF j = 1 THEN Tail(l)
         ELSE [x \in 1..(j - 1) |-> Entry(l[x].sn, c)] \o SubSeq(l, j + 1, Len(l))

\* CNode::inserted (string.cpp 519-533), CNode::updated (535-547) and
\* CNode::removed (549-563): a copy of the array with slot d changed
cinserted(arr, d, b) == [arr EXCEPT ![d] = b]

cupdated(arr, d, b) == [arr EXCEPT ![d] = b]

\* a CNode::removed that leaves the branch in place
cremovedNone(arr, d) == arr

cremoved(arr, d) == [arr EXCEPT ![d] = NoBranch]

\* an SNode::_emplace that returns the SNode it found whatever its colour
emplaceAny(found) == TRUE

\* SNode::_emplace (string.cpp 282): the node found is returned unless RED
emplaceFound(found) == found # RED

\* LNode::_emplace (string.cpp 475-486): the second component of its result
lnodeResult(n) == NULL


\* ----------------------------------------------- Ctrie::emplace (mutators)
\* What one step of emplace by mutator t leaves behind: the trie mn, the
\* locals trr, an SNode s it allocated (SNode::_make, string.cpp 221-223,
\* Object::Object, gc.hpp 373-377) or NULL, the colours col2, and, when the
\* call returns, its result v, which the caller keeps in a root.
EmplaceStep(t, mn, trr, s, done, v, col2, fresh) ==
    LET trr2 == IF done THEN [trr EXCEPT ![t] = NoTr] ELSE trr
        keepit == done /\ v # NULL
    IN
    /\ main' = Norm(mn, trr2)
    /\ tr' = trr2
    /\ color' = IF s # NULL THEN [col2 EXCEPT ![s] = loc[t].ALLOC] ELSE col2
    /\ ostate' = IF s # NULL THEN [ostate EXCEPT ![s] = "live"] ELSE ostate
    /\ skey' = IF s # NULL THEN [skey EXCEPT ![s] = tr[t].q] ELSE skey
    /\ loc' = [loc EXCEPT
                 ![t].allocations = IF s # NULL THEN Append(@, s) ELSE @,
                 ![t].roots = IF keepit /\ v \notin SeqToSet(@)
                              THEN Append(@, v) ELSE @]
    /\ mpc' = IF done THEN [mpc EXCEPT ![t] = "idle"] ELSE mpc
    /\ hist' = IF done
               THEN [hist EXCEPT ![t] =
                       [q1 |-> @.q2, v1 |-> @.v2, hs |-> @.hs2,
                        q2 |-> tr[t].q, v2 |-> v, hs2 |-> 0,
                        red |-> trr[t].red, fresh |-> fresh,
                        old |-> trr[t].old]]
               ELSE hist
    /\ returned' = IF done /\ v # NULL THEN returned \cup {v} ELSE returned
    /\ strong' = strong \cup StrongOf(mn)
    /\ won' = won \cup {<<x, cpc \in {"C_sweep", "C_remove"}>> :
                          x \in {y \in Objs : color[y] # col2[y]}}
    /\ UNCHANGED <<gWHITE, gALLOC, entrants, groots, chan, fld, reg, nops,
                   strs, auxvars, removed>>
    /\ UnchangedLists

\* iinsert (string.cpp 680-682): i->main.load(), then the _emplace of the
\* node loaded: CNode::_emplace (614-629) looks at the slot of the hash,
\* INode::_emplace (194-197) descends, TNode::_emplace (353-356) cleans.
emplaceLoad(r) ==
    LET i == Back(r.path)
        lev == Len(r.path) - 1
        m == main[i]
        b == m.arr[Digit(r.q, lev)]
    IN IF m.k = "C"
       THEN IF b.t = "N"
            THEN [r EXCEPT !.pc = "cn_ins", !.m = m, !.mok = TRUE]
            ELSE IF b.t = "I"
            THEN [r EXCEPT !.path = Append(@, b.x)]
            ELSE [r EXCEPT !.pc = IF skey[b.x] = r.q THEN "sn_cas" ELSE "sn_ins",
                           !.sn = b.x, !.m = m, !.mok = TRUE]
       ELSE IF m.k = "T"
       THEN [r EXCEPT !.pc = "cl_load"]
       ELSE [r EXCEPT !.pc = "ln_cas", !.m = m, !.mok = TRUE]

\* SNode::make -> Ctrie::emplace(q) (string.cpp 711-714): INode* r = root
\* and the first iinsert
InternBegin(m) ==
    /\ mpc[m] = "idle"
    /\ loc[m].depth > 0
    /\ Budget(m) /\ Count(m)
    /\ \E q \in strs :
        tr' = [tr EXCEPT ![m] =
                 emplaceLoad([NoTr EXCEPT !.pc = "ii_load", !.op = "emplace",
                                          !.q = q, !.path = <<Root>>])]
    /\ mpc' = [mpc EXCEPT ![m] = "intern"]
    /\ UNCHANGED <<entrants, chan, loc, reg, hist, strs, auxvars, skey, main, returned,
                   removed, strong, won>>
    /\ UnchangedGlobal /\ UnchangedHeap /\ UnchangedLists

IILoad(t) ==
    /\ tr[t].pc = "ii_load"
    /\ EmplaceStep(t, main, [tr EXCEPT ![t] = emplaceLoad(tr[t])], NULL, FALSE,
                   NULL, color, FALSE)

\* CNode::_emplace, empty slot (string.cpp 617-625): a new SNode goes into
\* a copy of the CNode (CNode::inserted), installed by compare-exchange.
CnIns(t) ==
    /\ tr[t].pc = "cn_ins"
    /\ \E o \in Objs : ostate[o] = "unused"
    /\ LET r == tr[t]
           i == Back(r.path)
           lev == Len(r.path) - 1
           s == FreshObj
           ncn == CNodeOf(cinserted(r.m.arr, Digit(r.q, lev), SBranch(s)))
       IN IF r.mok
          THEN EmplaceStep(t, [main EXCEPT ![i] = ncn], Invalidate(tr, t, i),
                           s, TRUE, s, color, TRUE)
          ELSE EmplaceStep(t, main, [tr EXCEPT ![t] = Restart(r)],
                           s, FALSE, NULL, color, FALSE)

\* SNode::_emplace (string.cpp 272-284): the query equals the string of the
\* SNode in the slot; compare-exchange of its colour WHITE -> WHITE ^ 1.
SnCas(t) ==
    /\ tr[t].pc = "sn_cas"
    /\ LET r == tr[t]
           s == r.sn
           found == color[s]
           col2 == IF found = loc[t].WHITE
                   THEN [color EXCEPT ![s] = Xor1(loc[t].WHITE)] ELSE color
       IN IF emplaceFound(found)
          THEN EmplaceStep(t, main, [tr EXCEPT ![t].old = s], NULL, TRUE, s,
                           col2, FALSE)
          ELSE EmplaceStep(t, main, [tr EXCEPT ![t].pc = "sn_ins",
                                               ![t].red = TRUE],
                           NULL, FALSE, NULL, col2, FALSE)

\* SNode::_emplace (string.cpp 285-300): a new SNode replaces an equal RED
\* one, or goes with the unequal one under a new INode (CNode::make).
\* With the strings of KeySets an unequal SNode is met above the last level
\* only and the INode identities suffice: the first conjunct holds in every
\* reachable state with pc "sn_ins".
SnIns(t) ==
    /\ tr[t].pc = "sn_ins"
    /\ \E o \in Objs : ostate[o] = "unused"
    /\ LET r == tr[t]
           i == Back(r.path)
           lev == Len(r.path) - 1
           s == FreshObj
           d == Digit(r.q, lev)
           equivalent == skey[r.sn] = r.q
           ids == Smallest(FreeI, Levels - lev)
           chain == makeChain(r.sn, s, r.q, lev + 1, ids, loc[t].ALLOC)
           ncn == CNodeOf(cupdated(r.m.arr, d, IF equivalent THEN SBranch(s)
                                               ELSE IBranch(ids[1])))
           mn == [x \in INodes |->
                    IF x = i THEN ncn
                    ELSE IF ~equivalent /\ \E j \in 1..Len(chain) : ids[j] = x
                    THEN chain[CHOOSE j \in 1..Len(chain) : ids[j] = x]
                    ELSE main[x]]
       IN
        /\ equivalent \/ (lev + 1 < Levels /\ Len(ids) = Levels - lev)
        /\ IF r.mok
           THEN EmplaceStep(t, mn, Invalidate(tr, t, i), s, TRUE, s,
                            color, TRUE)
           ELSE EmplaceStep(t, main, [tr EXCEPT ![t] = Restart(r)],
                            s, FALSE, NULL, color, FALSE)

\* LNode::_emplace (string.cpp 475-486)
LnCas(t) ==
    /\ tr[t].pc = "ln_cas"
    /\ \E o \in Objs : ostate[o] = "unused"
    /\ LET r == tr[t]
           i == Back(r.path)
           s == FreshObj
           hit == {j \in 1..Len(r.m.list) : skey[r.m.list[j].sn] = r.q}
           sawred == \E j \in hit : color[r.m.list[j].sn] = RED
           olds == {r.m.list[j].sn : j \in {x \in hit :
                                              color[r.m.list[x].sn] # RED}}
           old == IF olds = {} THEN NULL ELSE CHOOSE x \in olds : TRUE
           nln == LNodeOf(inserted(r.m.list, r.q, s, loc[t].ALLOC))
       IN IF r.mok
          THEN EmplaceStep(t, [main EXCEPT ![i] = nln],
                           [Invalidate(tr, t, i) EXCEPT ![t].red = sawred,
                                                        ![t].old = old],
                           s, TRUE, lnodeResult(s), color, TRUE)
          ELSE EmplaceStep(t, main, [tr EXCEPT ![t] = Restart(r)],
                           s, FALSE, NULL, color, FALSE)

\* clean(parent, lev - 6) (string.cpp 160-162) from TNode::_emplace or
\* TNode::_erase: the parent's main is loaded; CNode::vcleanA (645-653)
\* builds toCompressed of it, loading the main of the INodes below.
cleanLoad(r, c) ==
    LET p == r.path[Len(r.path) - 1]
        lev == Len(r.path) - 1
        pm == main[p]
    IN IF pm.k = "C"
       THEN [r EXCEPT !.pc = "cl_cas", !.pm = pm, !.pmok = TRUE,
                      !.des = toCompressed(pm, lev - 1, c)]
       ELSE Restart(r)

\* CNode::vcleanA: the compare-exchange; then RESTART either way
cleanMain(r) ==
    IF r.pmok THEN [main EXCEPT ![r.path[Len(r.path) - 1]] = r.des] ELSE main

cleanTr(t, r) ==
    [(IF r.pmok THEN Invalidate(tr, t, r.path[Len(r.path) - 1]) ELSE tr)
        EXCEPT ![t] = Restart(r)]

MClLoad(t) ==
    /\ tr[t].pc = "cl_load" /\ tr[t].op = "emplace"
    /\ EmplaceStep(t, main, [tr EXCEPT ![t] = cleanLoad(tr[t], loc[t].ALLOC)],
                   NULL, FALSE, NULL, color, FALSE)

MClCas(t) ==
    /\ tr[t].pc = "cl_cas" /\ tr[t].op = "emplace"
    /\ EmplaceStep(t, cleanMain(tr[t]), cleanTr(t, tr[t]),
                   NULL, FALSE, NULL, color, FALSE)


\* ---------------------------------------------- Ctrie::remove (collector)
\* What one step of remove(k) leaves behind.  When remove returns (fin),
\* SNode::_gc_sweep returns RED and collect() puts k on the red list
\* (gc.cpp 499-502).
RemoveStep(mn, trr, fin) ==
    LET trr2 == IF fin THEN [trr EXCEPT ![Collector] = NoTr] ELSE trr IN
    /\ main' = Norm(mn, trr2)
    /\ tr' = trr2
    /\ strong' = strong \cup StrongOf(mn)
    /\ redlist' = IF fin THEN Append(redlist, tr[Collector].k) ELSE redlist
    /\ removed' = IF fin THEN removed \cup {tr[Collector].k} ELSE removed
    /\ cpc' = IF fin THEN "C_sweep" ELSE cpc
    /\ UNCHANGED <<gWHITE, gALLOC, groots, entrants, chan, loc, objects,
                   whitelist, blacklist, mutators, mutators2, stack, ci,
                   gar1, gar2>>
    /\ UNCHANGED <<mpc, reg, nops, hist, strs, auxvars, skey, returned, won>>
    /\ UnchangedHeap

\* return to the caller: CNode::_erase of the level above, which goes on
\* to _erase2 (string.cpp 639-641), or Ctrie::remove itself
Unwind(r) ==
    [r EXCEPT !.pc = IF Len(r.path) = 1 THEN "done" ELSE "e2_load",
              !.path = PopBack(r.path), !.m = NoMain, !.mok = FALSE,
              !.pm = NoMain, !.pmok = FALSE, !.des = NoMain]

RemoveGo(mn, trr, r) ==
    RemoveStep(mn, [trr EXCEPT ![Collector] = r], r.pc = "done")

\* iremove (string.cpp 688-690): i->main.load(), then the _erase of the
\* node loaded: CNode::_erase (631-638), INode::_erase (199-202),
\* SNode::_erase with another SNode (307-308), TNode::_erase (358-361).
IRLoad ==
    /\ cpc = "C_remove" /\ tr[Collector].pc = "ir_load"
    /\ LET r == tr[Collector]
           i == Back(r.path)
           lev == Len(r.path) - 1
           m == main[i]
           b == m.arr[Digit(skey[r.k], lev)]
           r2 == IF m.k = "C"
                 THEN IF b.t = "N" THEN Unwind(r)
                      ELSE IF b.t = "I" THEN [r EXCEPT !.path = Append(@, b.x)]
                      ELSE IF b.x # r.k THEN [r EXCEPT !.pc = "e2_load"]
                      ELSE [r EXCEPT !.pc = "sr_cas", !.m = m, !.mok = TRUE]
                 ELSE IF m.k = "T" THEN [r EXCEPT !.pc = "cl_load"]
                 ELSE [r EXCEPT !.pc = "lr_cas", !.m = m, !.mok = TRUE]
       IN RemoveGo(main, tr, r2)

\* SNode::_erase (string.cpp 309-319): CNode::removed, toContracted and
\* the compare-exchange
SrCas ==
    /\ cpc = "C_remove" /\ tr[Collector].pc = "sr_cas"
    /\ LET r == tr[Collector]
           i == Back(r.path)
           lev == Len(r.path) - 1
           ncn == CNodeOf(cremoved(r.m.arr, Digit(skey[r.k], lev)))
           cntr == toContracted(ncn, lev, loc[Collector].ALLOC)
       IN IF r.mok
          THEN RemoveGo([main EXCEPT ![i] = cntr], Invalidate(tr, Collector, i),
                        [r EXCEPT !.pc = "e2_load", !.m = NoMain, !.mok = FALSE])
          ELSE RemoveGo(main, tr, Restart(r))

\* LNode::_erase (string.cpp 488-502)
LrCas ==
    /\ cpc = "C_remove" /\ tr[Collector].pc = "lr_cas"
    /\ LET r == tr[Collector]
           i == Back(r.path)
           hit == \E j \in 1..Len(r.m.list) : r.m.list[j].sn = r.k
           nl == lremoved(r.m.list, r.k, loc[Collector].ALLOC)
           desired == IF Len(nl) > 1 THEN LNodeOf(nl)
                      ELSE TNodeOf(nl[1].sn, loc[Collector].ALLOC)
       IN IF r.mok
          THEN IF hit
               THEN RemoveGo([main EXCEPT ![i] = desired],
                             Invalidate(tr, Collector, i), Unwind(r))
               ELSE RemoveGo(main, tr, Unwind(r))
          ELSE RemoveGo(main, tr, Restart(r))

\* CNode::_erase (string.cpp 639-641): i->main.load()->_erase2; only
\* TNode::_erase2 (379-381) does anything: cleanParent(parent, i, hash,
\* lev - 6).
E2Load ==
    /\ cpc = "C_remove" /\ tr[Collector].pc = "e2_load"
    /\ LET r == tr[Collector]
           m == main[Back(r.path)]
       IN IF m.k = "T" /\ Len(r.path) > 1
          THEN RemoveGo(main, tr, [r EXCEPT !.pc = "cp_load"])
          ELSE RemoveGo(main, tr, Unwind(r))

\* cleanParent (string.cpp 164-171): loads of i->main and p->main, then
\* CNode::vcleanParentA (655-665) and TNode::vcleanParentB (367-372)
CpLoad ==
    /\ cpc = "C_remove" /\ tr[Collector].pc = "cp_load"
    /\ LET r == tr[Collector]
           i == Back(r.path)
           p == r.path[Len(r.path) - 1]
           lev == Len(r.path) - 2
           m == main[i]
           pm == main[p]
           d == Digit(skey[r.k], lev)
           ncn == CNodeOf(cupdated(pm.arr, d, SBranch(m.list[1].sn)))
       IN IF pm.k = "C" /\ pm.arr[d] = IBranch(i) /\ m.k = "T"
          THEN RemoveGo(main, tr,
                 [r EXCEPT !.pc = "cp_cas", !.pm = pm, !.pmok = TRUE,
                           !.des = toContracted(ncn, lev, loc[Collector].ALLOC)])
          ELSE RemoveGo(main, tr, Unwind(r))

\* TNode::vcleanParentB (string.cpp 373-376): the compare-exchange on
\* p->main; cleanParent loops when it fails
CpCas ==
    /\ cpc = "C_remove" /\ tr[Collector].pc = "cp_cas"
    /\ LET r == tr[Collector]
           p == r.path[Len(r.path) - 1]
       IN IF r.pmok
          THEN RemoveGo([main EXCEPT ![p] = r.des],
                        Invalidate(tr, Collector, p), Unwind(r))
          ELSE RemoveGo(main, tr, [r EXCEPT !.pc = "cp_load", !.pm = NoMain,
                                            !.des = NoMain])

\* TNode::_erase (string.cpp 358-361): clean(parent, lev - 6), RESTART
CClLoad ==
    /\ cpc = "C_remove" /\ tr[Collector].pc = "cl_load"
    /\ RemoveGo(main, tr, cleanLoad(tr[Collector], loc[Collector].ALLOC))

CClCas ==
    /\ cpc = "C_remove" /\ tr[Collector].pc = "cl_cas"
    /\ RemoveStep(cleanMain(tr[Collector]), cleanTr(Collector, tr[Collector]),
                  FALSE)

\* TNode::_gc_scan (string.cpp 349-351), LNode::_gc_scan (383-386): the
\* scan of a TNode or of an LNode pushes its sn, and Object::_gc_scan_into
\* (gc.hpp 392-403) turns it from WHITE to BLACK.  The nodes of the ctrie
\* are not objects of the model: the scan of one of them is a step the
\* collector may take at any moment of the marking phase.
BMarkLeaf ==
    /\ cpc = "B_pass"
    /\ \E s \in strong :
        /\ ostate[s] = "live"
        /\ color[s] = loc[Collector].WHITE
        /\ color' = [color EXCEPT ![s] = BLACK(Collector)]
    /\ UNCHANGED <<gWHITE, gALLOC, groots, entrants, chan, loc, fld, ostate>>
    /\ UnchangedLists /\ UnchangedMutators


CollectorRun ==
    \/ CStart \/ AAccept \/ ARequest \/ AShadeRoots \/ ASelf
    \/ AReceive \/ BVisit \/ BScan \/ BPassEnd \/ BAccept \/ BRequest
    \/ BSelf \/ BReceive \/ CSweep \/ DFlip \/ DAccept \/ DRequest
    \/ DSelf \/ DReceive \/ DReds

CollectorStep == APublish \/ CollectorRun

MutatorStep(m) ==
    \/ Enter(m) \/ Leave(m) \/ Handshake(m) \/ HandshakeShade(m)
    \/ AllocRoot(m) \/ DropRoot(m) \/ Load(m) \/ LoadRoot(m)
    \/ Store1(m) \/ Store2(m) \/ Store3(m)

Next == CollectorStep \/ \E m \in Mutators : MutatorStep(m)

Spec == Init /\ [][Next]_vars

\* ------------------------------------------------- the intern set in use
\* The state after SNode::enter (string.cpp 333-338) and Ctrie::Ctrie
\* (698-700), when the collector thread is started: object 1 is the Ctrie
\* in global.roots and both mutators have entered.  M1 has interned the
\* string "a" (CNode::_emplace, 617-622) and has dropped it: object 2 is
\* its SNode.
InitIntern ==
    /\ gWHITE = 0 /\ gALLOC = 0
    /\ entrants = <<"M1", "M2">>
    /\ groots = <<1>>
    /\ chan = [t \in Threads |->
                 IF t \in Mutators
                 THEN [NoChannel EXCEPT !.st = "open", !.WHITE = 0, !.ALLOC = 0]
                 ELSE NoChannel]
    /\ loc = [t \in Threads |->
                IF t \in Mutators
                THEN [NoLocal EXCEPT !.depth = 1, !.channel = TRUE, !.WHITE = 0,
                                     !.ALLOC = 0,
                                     !.allocations = IF t = "M1" THEN <<1, 2>>
                                                     ELSE <<>>]
                ELSE NoLocal]
    /\ color = [o \in Objs |-> IF o <= 2 THEN 0 ELSE -1]
    /\ fld = [o \in Objs |-> NULL]
    /\ ostate = [o \in Objs |-> IF o <= 2 THEN "live" ELSE "unused"]
    /\ cpc = "start"
    /\ objects = <<>> /\ whitelist = <<>> /\ blacklist = <<>> /\ redlist = <<>>
    /\ mutators = <<>> /\ mutators2 = <<>>
    /\ stack = <<>>
    /\ ci = 0
    /\ mpc = [m \in Mutators |-> "idle"]
    /\ reg = [m \in Mutators |-> NoReg]
    /\ nops = [m \in Mutators |-> 0]
    /\ gar1 = {} /\ gar2 = {}
    /\ strs \in KeySets
    /\ skey = [o \in Objs |-> IF o = 2 THEN "a" ELSE NoKey]
    /\ main = [i \in INodes |->
                 IF i = Root
                 THEN CNodeOf(cinserted(EmptyArr, Digit("a", 0), SBranch(2)))
                 ELSE NoMain]
    /\ TrieIdle
    /\ AuxIdle

RemoveSteps ==
    \/ IRLoad \/ SrCas \/ LrCas \/ E2Load \/ CpLoad \/ CpCas
    \/ CClLoad \/ CClCas

InternStep(m) ==
    \/ Handshake(m) \/ HandshakeShade(m)
    \/ InternBegin(m) \/ IILoad(m) \/ CnIns(m) \/ SnCas(m) \/ SnIns(m)
    \/ LnCas(m) \/ MClLoad(m) \/ MClCas(m)

\* The intern set is followed through the first collection cycle.
APublishFirst == gWHITE = 0 /\ APublish

NextIntern ==
    \/ APublishFirst
    \/ CollectorRun \/ RemoveSteps \/ BMarkLeaf
    \/ \E m \in Mutators : InternStep(m)

SpecIntern == InitIntern /\ [][NextIntern]_vars

\* --------------------------------------- the intern set after the drop
\* Strings interned before the collector's first cycle: "a" alone, "a" and
\* "c" (different slots of the CNode of level 1), "a" and "b" (same hash:
\* an LNode).
DrainSets == {{"a"}, {"a", "b"}, {"a", "c"}}

\* Object 1 is in global.roots; M1 has interned the strings of strs (SNodes
\* 2 and 3, SNode::make 213-215) and holds none of them any more; both
\* mutators have entered and have no roots.
InitDrain ==
    /\ gWHITE = 0 /\ gALLOC = 0
    /\ entrants = <<"M1", "M2">>
    /\ groots = <<1>>
    /\ chan = [t \in Threads |->
                 IF t \in Mutators
                 THEN [NoChannel EXCEPT !.st = "open", !.WHITE = 0, !.ALLOC = 0]
                 ELSE NoChannel]
    /\ strs \in DrainSets
    /\ skey = [o \in Objs |-> IF o = 2 THEN "a"
                              ELSE IF o = 3 /\ "b" \in strs THEN "b"
                              ELSE IF o = 3 /\ "c" \in strs THEN "c"
                              ELSE NoKey]
    /\ loc = [t \in Threads |->
                IF t \in Mutators
                THEN [NoLocal EXCEPT !.depth = 1, !.channel = TRUE, !.WHITE = 0,
                                     !.ALLOC = 0,
                                     !.allocations =
                                        IF t = "M2" THEN <<>>
                                        ELSE IF strs = {"a"} THEN <<1, 2>>
                                        ELSE <<1, 2, 3>>]
                ELSE NoLocal]
    /\ color = [o \in Objs |-> IF o <= Cardinality(strs) + 1 THEN 0 ELSE -1]
    /\ fld = [o \in Objs |-> NULL]
    /\ ostate = [o \in Objs |-> IF o <= Cardinality(strs) + 1 THEN "live"
                                ELSE "unused"]
    /\ cpc = "start"
    /\ objects = <<>> /\ whitelist = <<>> /\ blacklist = <<>> /\ redlist = <<>>
    /\ mutators = <<>> /\ mutators2 = <<>>
    /\ stack = <<>>
    /\ ci = 0
    /\ mpc = [m \in Mutators |-> "idle"]
    /\ reg = [m \in Mutators |-> NoReg]
    /\ nops = [m \in Mutators |-> 0]
    /\ gar1 = {} /\ gar2 = {}
    /\ main = LET first == CNodeOf(cinserted(EmptyArr, Digit("a", 0), SBranch(2)))
                  q == IF "b" \in strs THEN "b" ELSE "c"
                  chain == makeChain(2, 3, q, 1, <<1, 2>>, 0)
              IN [i \in INodes |->
                    IF strs = {"a"}
                    THEN (IF i = Root THEN first ELSE NoMain)
                    ELSE IF i = Root
                    THEN CNodeOf(cupdated(first.arr, Digit("a", 0), IBranch(1)))
                    ELSE IF i <= Len(chain) THEN chain[i] ELSE NoMain]
    /\ tr = [t \in Threads |-> NoTr]
    /\ hist = [m \in Mutators |-> NoHist]
    /\ returned = {o \in Objs : skey[o] # NoKey}
    /\ removed = {} /\ won = {}
    /\ strong = StrongOf(main)
    /\ AuxIdle

\* collect() lines 216-222, for MaxCycle cycles
APublishDrain == ncycle < MaxCycle /\ APublish

\* Marking ends (collect() 358-389) when nothing is left to scan.  The Ctrie
\* is in global.roots and every node of it that was allocated before the
\* cycle is WHITE when the cycle starts, so it is scanned: TNode::_gc_scan
\* (349-351) and LNode::_gc_scan (383-386) have pushed the sn of every such
\* node before the last pass ends.
BPassEndDrain ==
    /\ \A i \in TrieINodes : \A j \in 1..Len(main[i].list) :
         main[i].list[j].col = loc[Collector].WHITE
            => color[main[i].list[j].sn] # loc[Collector].WHITE
    /\ BPassEnd

\* collect() lines 601-617: the end of a cycle
DRedsDrain ==
    /\ DRedsRun
    /\ ncycle' = ncycle + 1
    /\ UNCHANGED <<asleep, tablevars, bar, libvars>>

CollectorDrain ==
    \/ CStart \/ APublishDrain \/ AAccept \/ ARequest \/ AShadeRoots
    \/ ASelf \/ AReceive \/ BVisit \/ BScan \/ BMarkLeaf \/ BPassEndDrain
    \/ BAccept \/ BRequest \/ BSelf \/ BReceive \/ CSweep
    \/ IRLoad \/ SrCas \/ E2Load \/ CpLoad \/ CpCas
    \/ DFlip \/ DAccept \/ DRequest \/ DSelf \/ DReceive \/ DRedsDrain

NextDrain == CollectorDrain \/ \E m \in Mutators : Handshake(m)

SpecDrain == InitDrain /\ [][NextDrain]_vars

\* ------------------------------------------- the waits of the collector
\* collect() lines 284-285, 446-447, 575-576: under the channel mutex,
\* while (!channel->abandoned && channel->pending) the collector blocks in
\* channel->condition_variable.wait, which releases the mutex.  In Spec
\* and SpecIntern the wait is the guard of the receive; here the collector
\* goes to sleep and stays asleep until a notify_all on that channel.
CWait ==
    /\ cpc \in {"A_recv", "B_recv", "D_recv"}
    /\ ~asleep
    /\ mutators2 # <<>>
    /\ ~chan[Back(mutators2)].abandoned
    /\ chan[Back(mutators2)].pending
    /\ asleep' = TRUE
    /\ UNCHANGED <<gcvars, trievars, ncycle, tablevars, bar, libvars>>

\* channel->condition_variable.notify_all() (gc.cpp 112, 162) by thread m:
\* the collector wakes when it is blocked on the channel of m
wake(m, a) == IF a /\ mutators2 # <<>> /\ Back(mutators2) = m THEN FALSE ELSE a

\* handshake() lines 119-158: the block under the channel mutex
HandshakeL(m) ==
    /\ mpc[m] = "idle"
    /\ handshakeLocked(m)
    /\ mpc' = [mpc EXCEPT ![m] = "hs_notify"]
    /\ UNCHANGED <<entrants, reg, nops, hist>>
    /\ UnchangedGlobal /\ UnchangedHeap /\ UnchangedLists /\ UnchangedTrie

\* handshake() lines 160-162: if (pending) notify_all; the roots are shaded
\* next (163-169)
Notify(m) ==
    /\ mpc[m] = "hs_notify"
    /\ asleep' = wake(m, asleep)
    /\ UNCHANGED <<ncycle, tablevars, bar, libvars>>
    /\ IF loc[m].roots = <<>>
       THEN /\ mpc' = [mpc EXCEPT ![m] = "idle"]
            /\ UNCHANGED reg
       ELSE /\ mpc' = [mpc EXCEPT ![m] = "hs_shade"]
            /\ reg' = [reg EXCEPT ![m].i = 1]
    /\ UNCHANGED <<entrants, chan, loc, nops, hist>>
    /\ UnchangedGlobal /\ UnchangedHeap /\ UnchangedLists /\ UnchangedIntern

\* leave() lines 86-108: the block under the channel mutex of the final
\* leave; pending is what std::exchange returned
LeaveL(m) ==
    /\ mpc[m] = "idle"
    /\ Budget(m) /\ Count(m)
    /\ leave(m)
    /\ mpc' = [mpc EXCEPT ![m] = IF chan[m].pending THEN "lv_notify"
                                 ELSE "idle"]
    /\ UNCHANGED <<entrants, reg, hist>>
    /\ UnchangedGlobal /\ UnchangedHeap /\ UnchangedLists /\ UnchangedTrie

\* the process is terminated: no thread takes another step
Aborted ==
    /\ cpc' = "aborted"
    /\ mpc' = [t \in Mutators |-> "aborted"]

\* leave() lines 110-113: if (pending) notify_all, after the mutex is
\* released.  The collector that finds the channel abandoned deletes it
\* (gc.cpp 296, 472, 595) without waiting for this call, so the condition
\* variable may be gone: a use of a freed object, which does nothing or
\* terminates the process.
NotifyLeave(m) ==
    /\ mpc[m] = "lv_notify"
    /\ UNCHANGED <<entrants, chan, loc, reg, nops, hist, ncycle, tablevars, bar,
                   libvars>>
    /\ UnchangedGlobal /\ UnchangedHeap /\ UnchangedIntern
    /\ UNCHANGED <<objects, whitelist, blacklist, redlist, mutators,
                   mutators2, stack, ci, gar1, gar2>>
    /\ \/ /\ chan[m].st = "open"
          /\ asleep' = wake(m, asleep)
          /\ mpc' = [mpc EXCEPT ![m] = "idle"]
          /\ UNCHANGED cpc
       \/ /\ chan[m].st = "deleted"
          /\ UNCHANGED asleep
          /\ \/ mpc' = [mpc EXCEPT ![m] = "idle"] /\ UNCHANGED cpc
             \/ Aborted

CollectorStepL == CollectorStep \/ CWait

MutatorStepL(m) ==
    \/ Enter(m) \/ LeaveL(m) \/ NotifyLeave(m)
    \/ HandshakeL(m) \/ Notify(m) \/ HandshakeShade(m)
    \/ Load(m) \/ LoadRoot(m)

NextLive == CollectorStepL \/ \E m \in Mutators : MutatorStepL(m)

\* The collector thread runs; a mutator that is asked for a handshake calls
\* handshake() (vm.cpp: every 128 dispatches) unless it leaves, and finishes
\* the call and the operation it has begun.
FairLive ==
    /\ WF_vars(CollectorStepL)
    /\ \A m \in Mutators :
         /\ WF_vars(HandshakeL(m))
         /\ WF_vars(Notify(m))
         /\ WF_vars(NotifyLeave(m))
         /\ WF_vars(HandshakeShade(m))
         /\ WF_vars(LoadRoot(m))

SpecLive == Init /\ [][NextLive]_vars /\ FairLive

\* The mutators keep handshaking: no mutator leaves; each begins at most
\* MaxOps loads into its roots and then changes its roots no more.
MutatorStepM(m) ==
    \/ Enter(m)
    \/ HandshakeL(m) \/ Notify(m) \/ HandshakeShade(m)
    \/ Load(m) \/ LoadRoot(m)

NextMark == CollectorStepL \/ \E m \in Mutators : MutatorStepM(m)

SpecMark == Init /\ [][NextMark]_vars /\ FairLive

\* ------------------------------------------------- lox::Table (table.cpp)
\* ObjectString* keys: interned strings, compared by pointer
TKeys == 1..MaxKeys

\* ObjectString::_hash: keys 1 and 2 have the same index in an array of 8
\* entries and different ones in an array of 16
Hash(k) == IF k = 1 THEN 0 ELSE IF k = 2 THEN 8 ELSE k - 2

\* Value: nil (Value()), true (Value(true), the value of a tombstone) and
\* the values the calls store
TVals == {"v1", "v2"}

EmptyEntry == [key |-> NULL, value |-> "nil"]

\* findEntry (table.cpp 53-73): the index of the entry of key, or of the
\* entry a new key goes to: the first tombstone passed, else the empty entry
RECURSIVE probe(_, _, _, _)
probe(data, key, index, tombstone) ==
    LET entry == data[index + 1]
        next == (index + 1) % Len(data)
    IN IF entry.key = NULL
       THEN IF entry.value = "nil"
            THEN (IF tombstone # -1 THEN tombstone ELSE index)
            ELSE probe(data, key, next,
                       IF tombstone = -1 THEN index ELSE tombstone)
       ELSE IF entry.key = key THEN index
       ELSE probe(data, key, next, tombstone)

\* a findEntry that stops at the first tombstone of the probe path
RECURSIVE probeEager(_, _, _)
probeEager(data, key, index) ==
    LET entry == data[index + 1] IN
    IF entry.key = NULL \/ entry.key = key THEN index
    ELSE probeEager(data, key, (index + 1) % Len(data))

findEntryEager(data, key) == probeEager(data, key, Hash(key) % Len(data))

findEntry(data, key) == probe(data, key, Hash(key) % Len(data), -1)

\* gc::Array<Entry>::make: an array no table refers to
FreshArr(h) == CHOOSE a \in ArrIds :
                  /\ \A t \in Tables : h.tbl[t].entries # a
                  /\ \A b \in ArrIds :
                        (\A t \in Tables : h.tbl[t].entries # b) => a <= b

\* adjustCapacity (table.cpp 100-125), lines 110-118: the entries of the old
\* array from index i on are put into the new one
RECURSIVE rehash(_, _, _)
rehash(old, i, new) ==
    IF i > Len(old) THEN new
    ELSE IF old[i].key = NULL THEN rehash(old, i + 1, new)
    ELSE rehash(old, i + 1,
                [new EXCEPT ![findEntry(new, old[i].key) + 1] = old[i]])

adjustCapacity(h, t, capacity) ==
    LET a == FreshArr(h)
        old == IF h.tbl[t].entries = NULL THEN <<>>
               ELSE h.arr[h.tbl[t].entries]
        new == rehash(old, 1, [i \in 1..capacity |-> EmptyEntry])
        n == Cardinality({i \in 1..capacity : new[i].key # NULL})
        h1 == [h EXCEPT !.arr[a] = new]
    IN [h1 EXCEPT !.tbl[t] = [count |-> n, entries |-> a]]

\* a growth that keeps the capacity of an array that exists
KEEP_CAPACITY(capacity) == IF capacity < 8 THEN 8 ELSE capacity

\* GROW_CAPACITY (table.cpp 19-20)
GROW_CAPACITY(capacity) == IF capacity < 8 THEN 8 ELSE capacity * 2

\* gc::Array<Entry>::_capacity of the array of table t, 0 for null
Capacity(h, t) == IF h.tbl[t].entries = NULL THEN 0
                  ELSE Len(h.arr[h.tbl[t].entries])

\* tableSet (table.cpp 127-142); TABLE_MAX_LOAD is 0.75 (line 17)
tableSet(h, t, key, value) ==
    LET grow == \/ h.tbl[t].entries = NULL
                \/ 4 * (h.tbl[t].count + 1) > 3 * Capacity(h, t)
        h1 == IF grow
              THEN adjustCapacity(h, t, GROW_CAPACITY(Capacity(h, t)))
              ELSE h
        v == h1.tbl[t].entries
        index == findEntry(h1.arr[v], key)
        entry == h1.arr[v][index + 1]
        isNewKey == entry.key = NULL
        h2 == IF isNewKey /\ entry.value = "nil"
              THEN [h1 EXCEPT !.tbl[t].count = @ + 1]
              ELSE h1
    IN [h2 EXCEPT !.arr[v][index + 1] = [key |-> key, value |-> value]]

\* tableGet (table.cpp 75-84): the result and *value
tableGet(h, t, key) ==
    IF h.tbl[t].count = 0 THEN [ok |-> FALSE, value |-> "nil"]
    ELSE LET data == h.arr[h.tbl[t].entries]
             entry == data[findEntry(data, key) + 1]
         IN IF entry.key = NULL THEN [ok |-> FALSE, value |-> "nil"]
            ELSE [ok |-> TRUE, value |-> entry.value]

\* a tableDelete that leaves the table as it is
tableDeleteNone(h, t, key) == h

\* tableDelete (table.cpp 86-98): a tombstone in the place of the entry
tableDelete(h, t, key) ==
    IF h.tbl[t].count = 0 THEN h
    ELSE LET v == h.tbl[t].entries
             index == findEntry(h.arr[v], key)
         IN IF h.arr[v][index + 1].key = NULL THEN h
            ELSE [h EXCEPT !.arr[v][index + 1] =
                               [key |-> NULL, value |-> "true"]]

\* a tableAddAll that hands the array of from to the table to
tableAddAllShared(h, from, to) == [h EXCEPT !.tbl[to] = h.tbl[from]]

\* tableAddAll (table.cpp 144-155), lines 148-153 from index i on; from_v is
\* the array that from had when the call began
RECURSIVE addFrom(_, _, _, _)
addFrom(h, from_v, i, to) ==
    IF i > Len(h.arr[from_v]) THEN h
    ELSE LET entry == h.arr[from_v][i] IN
         addFrom(IF entry.key # NULL
                 THEN tableSet(h, to, entry.key, entry.value) ELSE h,
                 from_v, i + 1, to)

tableAddAll(h, from, to) ==
    IF h.tbl[from].entries = NULL THEN h
    ELSE addFrom(h, h.tbl[from].entries, 1, to)

\* the tables and the arrays they refer to; an array no table refers to any
\* more is reclaimed
Heap == [tbl |-> tbl, arr |-> tarr]

TableStep(h) ==
    /\ tbl' = h.tbl
    /\ tarr' = [a \in ArrIds |-> IF \E t \in Tables : h.tbl[t].entries = a
                                 THEN h.arr[a] ELSE <<>>]
    /\ tgot' = NoGot
    /\ UNCHANGED <<gcvars, trievars, asleep, ncycle, bar, libvars>>

\* Method 1 is defined and redefined in both classes, method 2 in the
\* superclass, and both are deleted there; the methods from 3 on are defined
\* once, in turn, in the superclass.
Redefined == {1, 2}

Defines(t, k, v) ==
    \/ k = 1
    \/ k = 2 /\ t = "super" /\ v = "v1"
    \/ /\ k \notin Redefined /\ t = "super" /\ v = "v1"
       /\ ~tableGet(Heap, t, k).ok
       /\ k - 1 \in Redefined \/ tableGet(Heap, t, k - 1).ok

\* defineMethod (vm.cpp): tableSet(&klass->methods, name, method)
TableSet(t, k, v) ==
    /\ Defines(t, k, v)
    /\ tlast' = [op |-> "set", t |-> t, k |-> k, v |-> v]
    /\ TableStep(tableSet(Heap, t, k, v))

TableDelete(t, k) ==
    /\ t = "super" /\ k \in Redefined
    /\ tlast' = [op |-> "delete", t |-> t, k |-> k, v |-> "nil"]
    /\ TableStep(tableDelete(Heap, t, k))

\* OPCODE_INHERIT (vm.cpp 527-538)
TableAddAll ==
    /\ tlast' = [op |-> "addall", t |-> "sub", k |-> NULL, v |-> "nil"]
    /\ TableStep(tableAddAll(Heap, "super", "sub"))

\* tableGet of the key of the last call, in either table
TableGet(t) ==
    /\ tlast.op \in {"set", "delete"}
    /\ tgot' = [t |-> t] @@ tableGet(Heap, t, tlast.k)
    /\ UNCHANGED <<gcvars, trievars, asleep, ncycle, bar, tbl, tarr, tlast,
                   libvars>>

NextTable ==
    \/ \E t \in Tables, k \in TKeys, v \in TVals : TableSet(t, k, v)
    \/ \E t \in Tables, k \in TKeys : TableDelete(t, k)
    \/ TableAddAll
    \/ \E t \in Tables : TableGet(t)

SpecTable == Init /\ [][NextTable]_vars

\* ----------------------------- Atomic<StrongPtr<T>> (gc.hpp 451-487)
\* Pointers a mutator can name: its roots, the global roots and what their
\* fields hold (a load does not shade, so these may be WHITE)
Known(m) ==
    LET rs == SeqToSet(loc[m].roots) \cup SeqToSet(groots) IN
    (rs \cup {fld[r] : r \in rs}) \ {NULL}

Fields(m) == SeqToSet(loc[m].roots) \cup SeqToSet(groots)

BarFrame ==
    /\ UNCHANGED <<entrants, chan, ostate, hist, asleep, ncycle, tablevars,
                   libvars>>
    /\ UnchangedGlobal /\ UnchangedLists /\ UnchangedIntern

\* the call a thread is in or has last returned from, and whether one of
\* its shades has turned a WHITE object GRAY; the registers hold the call's
\* locals: a the field and then the value read from it, b desired
Call(op, shaded) == [op |-> op, shaded |-> shaded]

Whitens(m, o) == o # NULL /\ color[o] = loc[m].WHITE

\* load (451-454)
BarLoad(m) ==
    /\ mpc[m] = "idle" /\ loc[m].depth > 0
    /\ Budget(m) /\ Count(m)
    /\ \E r \in Fields(m) : reg' = [reg EXCEPT ![m].a = fld[r], ![m].b = NULL]
    /\ bar' = [bar EXCEPT ![m] = Call("load", FALSE)]
    /\ UNCHANGED <<loc, color, fld, mpc>>
    /\ BarFrame

\* store (456-461) and exchange (463-469): shade(desired)
BarWrite1(m) ==
    /\ mpc[m] = "idle" /\ loc[m].depth > 0
    /\ Budget(m) /\ Count(m)
    /\ \E op \in {"store", "exchange"}, r \in Fields(m),
          v \in Known(m) \cup {NULL} :
        /\ reg' = [reg EXCEPT ![m].a = r, ![m].b = v]
        /\ bar' = [bar EXCEPT ![m] = Call(op, Whitens(m, v))]
        /\ color' = ShadeColor(m, v, color)
        /\ loc' = [loc EXCEPT ![m].dirty = ShadeDirty(m, v, color)]
    /\ mpc' = [mpc EXCEPT ![m] = "bw1"]
    /\ UNCHANGED fld
    /\ BarFrame

\* old = inner.exchange(desired)
BarWrite2(m) ==
    /\ mpc[m] = "bw1"
    /\ fld' = [fld EXCEPT ![reg[m].a] = reg[m].b]
    /\ reg' = [reg EXCEPT ![m].a = fld[reg[m].a]]
    /\ mpc' = [mpc EXCEPT ![m] = "bw2"]
    /\ UNCHANGED <<loc, color, nops, bar>>
    /\ BarFrame

\* shade(old); store returns, exchange returns old
BarShadeOld(m) ==
    /\ mpc[m] = "bw2"
    /\ color' = ShadeColor(m, reg[m].a, color)
    /\ loc' = [loc EXCEPT ![m].dirty = ShadeDirty(m, reg[m].a, color)]
    /\ bar' = [bar EXCEPT ![m].shaded = @ \/ Whitens(m, reg[m].a)]
    /\ reg' = [reg EXCEPT ![m].a = IF bar[m].op = "exchange" THEN @ ELSE NULL,
                          ![m].b = NULL]
    /\ mpc' = [mpc EXCEPT ![m] = "idle"]
    /\ UNCHANGED <<fld, nops>>
    /\ BarFrame

\* compare_exchange_strong (470-477) and compare_exchange_weak (479-487):
\* inner.compare_exchange succeeds, so the field held expected; shade(expected)
\* and shade(desired) are still to come
BarCas(m) ==
    /\ mpc[m] = "idle" /\ loc[m].depth > 0
    /\ Budget(m) /\ Count(m)
    /\ \E r \in Fields(m), v \in Known(m) \cup {NULL} :
        /\ reg' = [reg EXCEPT ![m].a = fld[r], ![m].b = v]
        /\ fld' = [fld EXCEPT ![r] = v]
    /\ bar' = [bar EXCEPT ![m] = Call("cas", FALSE)]
    /\ mpc' = [mpc EXCEPT ![m] = "cas1"]
    /\ UNCHANGED <<loc, color>>
    /\ BarFrame

\* shade(expected) after a compare-exchange that succeeded
BarCasShadeExpected(m) ==
    /\ mpc[m] = "cas1"
    /\ color' = ShadeColor(m, reg[m].a, color)
    /\ loc' = [loc EXCEPT ![m].dirty = ShadeDirty(m, reg[m].a, color)]
    /\ bar' = [bar EXCEPT ![m].shaded = @ \/ Whitens(m, reg[m].a)]
    /\ mpc' = [mpc EXCEPT ![m] = "cas2"]
    /\ UNCHANGED <<fld, reg, nops>>
    /\ BarFrame

\* shade(desired); the call returns true
BarCasShade(m) ==
    /\ mpc[m] = "cas2"
    /\ color' = ShadeColor(m, reg[m].b, color)
    /\ loc' = [loc EXCEPT ![m].dirty = ShadeDirty(m, reg[m].b, color)]
    /\ bar' = [bar EXCEPT ![m].shaded = @ \/ Whitens(m, reg[m].b)]
    /\ reg' = [reg EXCEPT ![m] = NoReg]
    /\ mpc' = [mpc EXCEPT ![m] = "idle"]
    /\ UNCHANGED <<fld, nops>>
    /\ BarFrame

\* inner.compare_exchange fails: the field does not hold expected, or the
\* weak form fails spuriously; expected takes the value of the field and
\* the && of line 475 / 485 cuts the shades off
BarCasFail(m) ==
    /\ mpc[m] = "idle" /\ loc[m].depth > 0
    /\ Budget(m) /\ Count(m)
    /\ \E r \in Fields(m), e \in Known(m) \cup {NULL}, weak \in BOOLEAN :
        /\ weak \/ fld[r] # e
        /\ reg' = [reg EXCEPT ![m].a = fld[r], ![m].b = NULL]
    /\ bar' = [bar EXCEPT ![m] = Call("casfail", FALSE)]
    /\ UNCHANGED <<loc, color, fld, mpc>>
    /\ BarFrame

BarrierStep(m) ==
    \/ Handshake(m)
    \/ BarLoad(m) \/ BarWrite1(m) \/ BarWrite2(m) \/ BarShadeOld(m)
    \/ BarCas(m) \/ BarCasShadeExpected(m) \/ BarCasShade(m) \/ BarCasFail(m)

\* one thread runs the barrier; the collector runs beside it
BarThreads == {"M1"}

NextBarrier == CollectorStep \/ \E m \in BarThreads : BarrierStep(m)

SpecBarrier == Init /\ [][NextBarrier]_vars

\* ------------------------------ nested enter() and leave() (gc.cpp 50-116)
NestFrame ==
    /\ UNCHANGED <<reg, hist>>
    /\ UnchangedGlobal /\ UnchangedHeap /\ UnchangedLists /\ UnchangedTrie

enterNestedCopy(t) ==
    /\ loc[t].depth > 0
    /\ loc' = [loc EXCEPT ![t].depth = @ + 1, ![t].WHITE = gWHITE,
                          ![t].ALLOC = gALLOC]

\* enter() lines 52-55 with depth > 0: if (local.depth++) return
enterNested(t) ==
    /\ loc[t].depth > 0
    /\ loc' = [loc EXCEPT ![t].depth = @ + 1]

EnterNested(m) ==
    /\ mpc[m] = "idle"
    /\ Budget(m) /\ Count(m)
    /\ enterNested(m)
    /\ UNCHANGED <<entrants, chan, mpc, cpc>>
    /\ NestFrame

\* the outermost enter() (lines 57-71), also of a thread that has left
\* before: new Channel.  A thread re-enters here once the collector has
\* deleted the channel of its last stay.
EnterOuter(m) ==
    /\ mpc[m] = "idle"
    /\ Budget(m) /\ Count(m)
    /\ chan[m].st = "deleted"
    /\ loc[m].depth = 0
    /\ chan' = [chan EXCEPT ![m] = [NoChannel EXCEPT !.st = "open",
                                    !.WHITE = gWHITE, !.ALLOC = gALLOC]]
    /\ loc' = [loc EXCEPT ![m].depth = 1, ![m].channel = TRUE,
                          ![m].WHITE = gWHITE, ![m].ALLOC = gALLOC]
    /\ entrants' = Append(entrants, m)
    /\ UNCHANGED <<mpc, cpc>>
    /\ NestFrame

\* leave() lines 76-79 with depth > 1: if (--local.depth) return
leaveNested(t) ==
    /\ loc[t].depth > 1
    /\ loc' = [loc EXCEPT ![t].depth = @ - 1]

LeaveNested(m) ==
    /\ mpc[m] = "idle"
    /\ Budget(m) /\ Count(m)
    /\ leaveNested(m)
    /\ UNCHANGED <<entrants, chan, mpc, cpc>>
    /\ NestFrame

NestStep(m) ==
    \/ Enter(m) \/ EnterNested(m) \/ EnterOuter(m)
    \/ LeaveNested(m) \/ LeaveL(m) \/ NotifyLeave(m)
    \/ HandshakeL(m) \/ Notify(m) \/ HandshakeShade(m)
    \/ AllocRoot(m)

NextNest == CollectorStepL \/ \E m \in Mutators : NestStep(m)

SpecNest == Init /\ [][NextNest]_vars /\ FairLive

\* --------------------------------- handshake() when none is requested
\* handshake() lines 123-124 and 156-158: pending is read clear under the
\* channel mutex, the else branch is empty and if (pending) is skipped
HandshakeClear(m) ==
    /\ mpc[m] = "idle"
    /\ loc[m].channel
    /\ ~chan[m].pending
    /\ bar' = [bar EXCEPT ![m] = Call("handshake", FALSE)]
    /\ UNCHANGED <<gcvars, trievars, asleep, ncycle, tablevars, libvars>>

ShakeStep(m) ==
    \/ Enter(m) \/ AllocRoot(m)
    \/ HandshakeL(m) \/ Notify(m) \/ HandshakeShade(m)
    \/ HandshakeClear(m)

NextShake == CollectorStepL \/ \E m \in Mutators : ShakeStep(m)

SpecShake == Init /\ [][NextShake]_vars

\* ----------------------- calls outside enter() ... leave() (misuse)
\* leave() lines 74-79 on a thread whose depth is 0 or less.  At 0 the
\* assert(local.depth >= 0) passes, --local.depth is -1 and the call returns
\* through if (--local.depth) return.  Below 0 the assert ends the process
\* where assertions are compiled in; elsewhere depth goes on down.
LeaveUnmatched(m) ==
    /\ mpc[m] = "idle"
    /\ Budget(m) /\ Count(m)
    /\ loc[m].depth <= 0
    /\ \/ /\ loc' = [loc EXCEPT ![m].depth = @ - 1]
          /\ UNCHANGED <<mpc, cpc>>
       \/ /\ loc[m].depth < 0
          /\ Aborted
          /\ UNCHANGED loc
    /\ UNCHANGED <<entrants, chan>>
    /\ NestFrame

\* enter() lines 50-55 after an unmatched leave(): depth < 0.  The assert
\* ends the process where assertions are compiled in; elsewhere depth++ is
\* non-zero and the call returns without a channel.
EnterUnmatched(m) ==
    /\ mpc[m] = "idle"
    /\ Budget(m) /\ Count(m)
    /\ loc[m].depth < 0
    /\ \/ /\ loc' = [loc EXCEPT ![m].depth = @ + 1]
          /\ UNCHANGED <<mpc, cpc>>
       \/ /\ Aborted
          /\ UNCHANGED loc
    /\ UNCHANGED <<entrants, chan>>
    /\ NestFrame

\* Object::Object (gc.hpp 373-377) on a thread whose depth is 0 or less:
\* color(local.ALLOC), assert(local.depth), allocations.push_back(this).
\* At depth 0 the assert ends the process where assertions are compiled in;
\* elsewhere, and in every build at a depth below 0, the object is made.
AllocOutside(m) ==
    /\ mpc[m] = "idle"
    /\ Budget(m) /\ Count(m)
    /\ loc[m].depth <= 0
    /\ \E o \in Objs : ostate[o] = "unused"
    /\ \/ /\ ostate' = [ostate EXCEPT ![FreshObj] = "live"]
          /\ color' = [color EXCEPT ![FreshObj] = loc[m].ALLOC]
          /\ loc' = [loc EXCEPT ![m].allocations = Append(@, FreshObj)]
          /\ UNCHANGED <<mpc, cpc>>
       \/ /\ loc[m].depth = 0
          /\ Aborted
          /\ UNCHANGED <<ostate, color, loc>>
    /\ UNCHANGED <<entrants, chan, fld, reg, hist>>
    /\ UnchangedGlobal /\ UnchangedTrie
    /\ UNCHANGED <<objects, whitelist, blacklist, redlist, mutators,
                   mutators2, stack, ci, gar1, gar2>>

MisuseStep(m) ==
    \/ Enter(m) \/ Leave(m) \/ Handshake(m)
    \/ LeaveUnmatched(m) \/ EnterUnmatched(m) \/ AllocOutside(m)

NextMisuse == CollectorStep \/ \E m \in Mutators : MisuseStep(m)

SpecMisuse == Init /\ [][NextMisuse]_vars

\* ------------------------------------------------- gc::deque (deque.hpp)
\* a deque value d is [node, b, e]: the nodes, _begin and _end
DqFree(d) == {n \in DqNodes : d.node[n].next = 0}

DqNew(d) == CHOOSE n \in DqFree(d) : \A k \in DqFree(d) : n <= k

\* _from_null (158-162)
_from_null(d) ==
    LET p == DqNew(d) IN
    [d EXCEPT !.node[p] = [NoNode EXCEPT !.prev = p, !.next = p],
              !.b = [n |-> p, i |-> DqInit],
              !.e = [n |-> p, i |-> DqInit]]

\* _insert_before (164-170)
_insert_before(d, node) ==
    LET p  == DqNew(d)
        d1 == [d EXCEPT !.node[p] = [NoNode EXCEPT !.next = node,
                                            !.prev = d.node[node].prev]]
        d2 == [d1 EXCEPT !.node[d1.node[p].next].prev = p]
    IN [d2 EXCEPT !.node[d2.node[p].prev].next = p]

\* _advance (180-187)
_advance(d, p) ==
    IF p.i + 1 = DqCount THEN [n |-> d.node[p.n].next, i |-> 0]
    ELSE [p EXCEPT !.i = @ + 1]

\* empty (276)
empty(d) == d.b = d.e

\* front (284): *_begin
front(d) == d.node[d.b.n].el[d.b.i]

\* back (290-299): the slot before _begin, in the node of _begin or at the
\* end of the node before it
backSlot(d) ==
    IF d.b.i # 0 THEN [n |-> d.b.n, i |-> d.b.i - 1]
    ELSE [n |-> d.node[d.b.n].prev, i |-> DqCount - 1]

\* emplace_back (301-315)
emplace_back(d, x) ==
    LET d1    == IF d.e = NullPtr THEN _from_null(d) ELSE d
        first == d1.b.n
        last  == d1.e.n
        d2    == [d1 EXCEPT !.node[last].el[d1.e.i] = x]
    IN IF d1.e.i + 1 = DqCount
       THEN LET d3 == IF d2.node[last].next = first
                      THEN _insert_before(d2, first) ELSE d2
            IN [d3 EXCEPT !.e = [n |-> d3.node[last].next, i |-> 0]]
       ELSE [d2 EXCEPT !.e.i = @ + 1]

\* emplace_front (320-336)
emplace_front(d, x) ==
    LET d1    == IF d.b = NullPtr THEN _from_null(d) ELSE d
        first == d1.b.n
        last  == d1.e.n
        d2    == IF d1.b.i = 0 /\ d1.node[first].prev = last
                 THEN _insert_before(d1, first) ELSE d1
        p     == IF d1.b.i = 0
                 THEN [n |-> d2.node[first].prev, i |-> DqCount - 1]
                 ELSE [n |-> first, i |-> d1.b.i - 1]
    IN [d2 EXCEPT !.node[p.n].el[p.i] = x, !.b = p]

pop_frontStay(d) ==
    [d EXCEPT !.node[d.b.n].el[d.b.i] = Junk,
              !.b = IF d.b.i + 1 = DqCount THEN [n |-> d.b.n, i |-> 0]
                    ELSE [d.b EXCEPT !.i = @ + 1]]

\* pop_front (341-352)
pop_front(d) ==
    LET d1 == [d EXCEPT !.node[d.b.n].el[d.b.i] = Junk, !.b.i = @ + 1]
        first == d1.b.n
    IN IF d1.b.i = DqCount
       THEN IF d1.b # d1.e
            THEN [d1 EXCEPT !.b = [n |-> d1.node[first].next, i |-> 0]]
            ELSE [d1 EXCEPT !.b = [n |-> first, i |-> DqInit],
                            !.e = [n |-> first, i |-> DqInit]]
       ELSE d1

\* pop_back (354-363)
pop_back(d) ==
    LET e1 == IF d.e.i = 0
              THEN [n |-> d.node[d.e.n].prev, i |-> DqCount]
              ELSE d.e
        e2 == [e1 EXCEPT !.i = @ - 1]
    IN [d EXCEPT !.node[e2.n].el[e2.i] = Junk, !.e = e2]

\* the elements from _begin up to _end, as begin() ... end() visits them
RECURSIVE DqWalk(_, _, _)
DqWalk(d, p, k) ==
    IF p = d.e \/ k = 0 THEN <<>>
    ELSE <<d.node[p.n].el[p.i]>> \o DqWalk(d, _advance(d, p), k - 1)

Elements(d) == DqWalk(d, d.b, MaxDqNodes * DqCount + 1)

\* a push may need one more node
DqRoom(d) == DqFree(d) # {}

DqFresh == dhist.pushed + 1

DqPushBack ==
    /\ dhist.pushed < MaxDqPush /\ DqRoom(dq)
    /\ dq' = emplace_back(dq, DqFresh)
    /\ dhist' = [abs |-> Append(dhist.abs, DqFresh), op |-> "push_back",
                 x |-> DqFresh, before |-> dhist.abs, pushed |-> DqFresh]
    /\ UNCHANGED <<gcvars, trievars, asleep, ncycle, tablevars, bar, msq, rnd>>

DqPushFront ==
    /\ dhist.pushed < MaxDqPush /\ DqRoom(dq)
    /\ dq' = emplace_front(dq, DqFresh)
    /\ dhist' = [abs |-> <<DqFresh>> \o dhist.abs, op |-> "push_front",
                 x |-> DqFresh, before |-> dhist.abs, pushed |-> DqFresh]
    /\ UNCHANGED <<gcvars, trievars, asleep, ncycle, tablevars, bar, msq, rnd>>

\* front() and then pop_front(); both assert(!empty())
DqPopFront ==
    /\ dq.b # NullPtr /\ ~empty(dq)
    /\ dq' = pop_front(dq)
    /\ dhist' = [dhist EXCEPT !.abs = Tail(@), !.op = "pop_front",
                              !.x = front(dq), !.before = dhist.abs]
    /\ UNCHANGED <<gcvars, trievars, asleep, ncycle, tablevars, bar, msq, rnd>>

DqPopBack ==
    /\ dq.b # NullPtr /\ ~empty(dq)
    /\ dq' = pop_back(dq)
    /\ dhist' = [dhist EXCEPT !.abs = SubSeq(@, 1, Len(@) - 1),
                              !.op = IF dhist.op \in {"push_back", "back"}
                                     THEN "pop_pushed" ELSE "pop_back",
                              !.x = 0]
    /\ UNCHANGED <<gcvars, trievars, asleep, ncycle, tablevars, bar, msq, rnd>>

\* back(), assert(!empty()): the slot it reads holds no element when it was
\* never constructed or was destroyed, and the read then yields any value
DqBack ==
    /\ dq.b # NullPtr /\ ~empty(dq)
    /\ dhist.op = "push_back"
    /\ LET s == backSlot(dq)
           v == dq.node[s.n].el[s.i]
       IN \E r \in 0..MaxDqPush :
            /\ v # Junk => r = v
            /\ dhist' = [dhist EXCEPT !.op = "back", !.x = r]
    /\ UNCHANGED <<dq, gcvars, trievars, asleep, ncycle, tablevars, bar, msq, rnd>>

NextDeque == DqPushBack \/ DqPushFront \/ DqPopFront \/ DqPopBack \/ DqBack

SpecDeque == Init /\ [][NextDeque]_vars

\* shrink_to_fit, lines 389-390: delete the nodes from cursor up to first
RECURSIVE eraseUpTo(_, _, _, _)
eraseUpTo(d, cursor, first, k) ==
    IF cursor = first \/ k = 0 THEN d
    ELSE eraseUpTo([d EXCEPT !.node[cursor] = NoNode],
                   d.node[cursor].next, first, k - 1)

\* a shrink_to_fit that splices without the test of line 382
shrinkAll(d) ==
    IF d.e = NullPtr THEN d
    ELSE LET first == d.b.n
             last == d.e.n
             cursor == d.node[last].next
             d1 == [d EXCEPT !.node[last].next = first]
             d2 == [d1 EXCEPT !.node[first].prev = last]
         IN eraseUpTo(d2, cursor, first, MaxDqNodes)

\* shrink_to_fit (377-392)
shrink_to_fit(d) ==
    IF d.e = NullPtr THEN d
    ELSE LET first == d.b.n
             last == d.e.n
         IN IF d.node[last].next # d.node[first].prev
            THEN LET cursor == d.node[last].next
                     d1 == [d EXCEPT !.node[last].next = first]
                     d2 == [d1 EXCEPT !.node[first].prev = last]
                 IN eraseUpTo(d2, cursor, first, MaxDqNodes)
            ELSE d

\* shrink_to_fit(); the history keeps the number of nodes deleted
DqShrink ==
    /\ dq' = shrink_to_fit(dq)
    /\ dhist' = [dhist EXCEPT !.op = "shrink", !.before = dhist.abs,
                              !.x = Cardinality(DqFree(dq'))
                                    - Cardinality(DqFree(dq))]
    /\ UNCHANGED <<gcvars, trievars, asleep, ncycle, tablevars, bar, msq, rnd>>

NextShrink ==
    DqPushBack \/ DqPushFront \/ DqPopFront \/ DqPopBack \/ DqShrink

SpecShrink == Init /\ [][NextShrink]_vars

\* ------------------------------------- MichaelScottQueue (queue.hpp)
\* push lines 60-65: a = new Node, a->value = value, b = tail.load()
pushBegin(q, t) ==
    LET a == q.made + 1 IN
    [q EXCEPT !.made = a,
              !.value[a] = <<t, q.call[t].pushes + 1>>,
              !.call[t] = [@ EXCEPT !.pc = "push_cas", !.a = a, !.b = q.tail,
                                    !.ops = @ + 1, !.pushes = @ + 1]]

\* push lines 69-74: next = nullptr; b->next.compare_exchange_strong(next, a)
pushCas(q, t) ==
    LET c == q.call[t] IN
    IF q.next[c.b] = NULL
    THEN [q EXCEPT !.next[c.b] = c.a,
                   !.in = Append(@, q.value[c.a]),
                   !.call[t] = [NoCall EXCEPT !.ops = c.ops,
                                              !.pushes = c.pushes]]
    ELSE [q EXCEPT !.call[t] = [@ EXCEPT !.pc = "push_tail",
                                         !.next = q.next[c.b]]]

\* push lines 76-80: tail.compare_exchange_strong(b, next); b is the last
\* observation of tail either way
pushTail(q, t) ==
    LET c == q.call[t] IN
    IF q.tail = c.b
    THEN [q EXCEPT !.tail = c.next,
                   !.call[t] = [@ EXCEPT !.pc = "push_cas", !.b = c.next,
                                         !.next = NULL]]
    ELSE [q EXCEPT !.call[t] = [@ EXCEPT !.pc = "push_cas", !.b = q.tail,
                                         !.next = NULL]]

\* pop line 85: expected = head.load()
popBegin(q, t) ==
    [q EXCEPT !.call[t] = [@ EXCEPT !.pc = "pop_next", !.expected = q.head,
                                    !.ops = @ + 1]]

\* pop lines 88-91: next = expected->next.load(); if null, return false
popNext(q, t) ==
    LET c == q.call[t] IN
    IF q.next[c.expected] = NULL
    THEN [q EXCEPT !.call[t] = [NoCall EXCEPT !.ops = c.ops,
                                              !.pushes = c.pushes]]
    ELSE [q EXCEPT !.call[t] = [@ EXCEPT !.pc = "pop_cas",
                                         !.next = q.next[c.expected]]]

\* pop lines 92-97: head.compare_exchange_strong(expected, next); on success
\* value = next->value and return true, else try again with the head read
popCas(q, t) ==
    LET c == q.call[t] IN
    IF q.head = c.expected
    THEN [q EXCEPT !.head = c.next,
                   !.out = Append(@, q.value[c.next]),
                   !.call[t] = [NoCall EXCEPT !.ops = c.ops,
                                              !.pushes = c.pushes]]
    ELSE [q EXCEPT !.call[t] = [@ EXCEPT !.pc = "pop_next",
                                         !.expected = q.head, !.next = NULL]]

QFrame == UNCHANGED <<gcvars, trievars, asleep, ncycle, tablevars, bar, dq,
                      dhist, rnd>>

\* the nodes from node n on, following next, as far as they still exist
RECURSIVE QChain(_, _, _)
QChain(q, n, k) ==
    IF n = NULL \/ n \in q.freed \/ k = 0 THEN <<>>
    ELSE <<n>> \o QChain(q, q.next[n], k - 1)

QFrom(q, n) == QChain(q, n, Cardinality(QNodes))

QRange(s) == {s[i] : i \in 1..Len(s)}

\* what the collector traces from the queue: MichaelScottQueue::_gc_scan
\* (54-56) pushes head and not tail, Node::_gc_scan (30-33) pushes next
QTraced(q) == QRange(QFrom(q, q.head))

QTracedBoth(q) == QRange(QFrom(q, q.head)) \cup QRange(QFrom(q, q.tail))

\* push line 72 on a node the collector has deleted: the memory may still
\* hold the node (the call goes on as pushCas), may read as a null next (the
\* compare-exchange succeeds on dead memory and the call returns with its
\* node linked to nothing the queue holds), or the access faults
pushCasFreed(q, t, outcome) ==
    LET c == q.call[t] IN
    CASE outcome = "stale" -> pushCas(q, t)
      [] outcome = "null" ->
            [q EXCEPT !.in = Append(@, q.value[c.a]),
                      !.call[t] = [NoCall EXCEPT !.ops = c.ops,
                                                 !.pushes = c.pushes]]
      [] OTHER -> [q EXCEPT !.crashed = TRUE]

PushBegin(t) ==
    /\ ~msq.crashed
    /\ msq.call[t].pc = "idle" /\ msq.call[t].ops < MaxQOps
    /\ msq' = pushBegin(msq, t)
    /\ QFrame

PushCas(t) ==
    /\ ~msq.crashed
    /\ msq.call[t].pc = "push_cas"
    /\ msq.call[t].b \notin msq.freed
    /\ msq' = pushCas(msq, t)
    /\ QFrame

PushCasFreed(t) ==
    /\ ~msq.crashed
    /\ msq.call[t].pc = "push_cas"
    /\ msq.call[t].b \in msq.freed
    /\ \E outcome \in {"stale", "null", "fault"} :
            msq' = pushCasFreed(msq, t, outcome)
    /\ QFrame

\* a collection while no thread is inside push or pop (a thread handshakes
\* between calls only): the sweep (gc.cpp 488-508) deletes the nodes that
\* the scan did not reach from the queue
QueueSweep ==
    /\ ~msq.crashed
    /\ \A t \in Mutators : msq.call[t].pc = "idle"
    /\ (1..msq.made) \ (QTraced(msq) \cup msq.freed) # {}
    /\ msq' = [msq EXCEPT !.freed = (1..msq.made) \ QTraced(msq)]
    /\ QFrame

PushTail(t) ==
    /\ ~msq.crashed
    /\ msq.call[t].pc = "push_tail"
    /\ msq' = pushTail(msq, t)
    /\ QFrame

PopBegin(t) ==
    /\ ~msq.crashed
    /\ msq.call[t].pc = "idle" /\ msq.call[t].ops < MaxQOps
    /\ msq' = popBegin(msq, t)
    /\ QFrame

PopNext(t) ==
    /\ ~msq.crashed
    /\ msq.call[t].pc = "pop_next"
    /\ msq' = popNext(msq, t)
    /\ QFrame

PopCas(t) ==
    /\ ~msq.crashed
    /\ msq.call[t].pc = "pop_cas"
    /\ msq' = popCas(msq, t)
    /\ QFrame

QueueStep(t) ==
    \/ PushBegin(t) \/ PushCas(t) \/ PushCasFreed(t) \/ PushTail(t)
    \/ PopBegin(t) \/ PopNext(t) \/ PopCas(t)

NextQueue == QueueSweep \/ \E t \in Mutators : QueueStep(t)

SpecQueue == Init /\ [][NextQueue]_vars

\* ------------------------------------ shade as a function (gc.hpp 359-369)
\* The inputs of one call of shade(object) by M1: the colour of object 1
\* (WHITE, BLACK, GRAY or RED), whether it is a leaf, the colour of object
\* 2, M1's WHITE and M1's dirty flag; the object is 1, 2 or null.
InitShadeCall ==
    /\ gWHITE = 0 /\ gALLOC = 0
    /\ entrants = <<"M1">>
    /\ groots = <<>>
    /\ chan = [t \in Threads |->
                 IF t = "M1"
                 THEN [NoChannel EXCEPT !.st = "open", !.WHITE = 0, !.ALLOC = 0]
                 ELSE NoChannel]
    /\ \E w \in {0, 1}, d \in BOOLEAN :
         loc = [t \in Threads |->
                  IF t = "M1"
                  THEN [NoLocal EXCEPT !.depth = 1, !.channel = TRUE,
                                       !.WHITE = w, !.ALLOC = Xor1(w),
                                       !.dirty = d, !.allocations = <<1, 2>>]
                  ELSE NoLocal]
    /\ \E c1 \in {0, 1, GRAY, RED}, c2 \in {0, 1} :
         color = [o \in Objs |-> IF o = 1 THEN c1 ELSE IF o = 2 THEN c2 ELSE -1]
    /\ fld = [o \in Objs |-> NULL]
    /\ ostate = [o \in Objs |-> IF o <= 2 THEN "live" ELSE "unused"]
    /\ cpc = "start"
    /\ objects = <<>> /\ whitelist = <<>> /\ blacklist = <<>> /\ redlist = <<>>
    /\ mutators = <<>> /\ mutators2 = <<>>
    /\ stack = <<>>
    /\ ci = 0
    /\ mpc = [m \in Mutators |-> "idle"]
    /\ reg = [m \in Mutators |-> NoReg]
    /\ nops = [m \in Mutators |-> 0]
    /\ gar1 = {} /\ gar2 = {}
    /\ strs = {}
    /\ \E k \in {NoKey, "a"} :
         skey = [o \in Objs |-> IF o = 1 THEN k ELSE NoKey]
    /\ main = [i \in INodes |-> NoMain]
    /\ TrieIdle
    /\ AuxIdle

\* shade(object) (gc.hpp 365-369): context.WHITE = local.WHITE, then
\* object->_gc_shade(context) unless object is null (359-363)
ShadeCall(o) ==
    /\ bar["M1"].op = "none"
    /\ color' = ShadeColor("M1", o, color)
    /\ loc' = [loc EXCEPT !["M1"].dirty = ShadeDirty("M1", o, color)]
    /\ reg' = [reg EXCEPT !["M1"].a = o]
    /\ bar' = [bar EXCEPT !["M1"] = Call("shade", color' # color)]
    /\ UNCHANGED <<fld, mpc, nops>>
    /\ BarFrame

NextShadeCall == \E o \in {NULL, 1, 2} : ShadeCall(o)

SpecShadeCall == InitShadeCall /\ [][NextShadeCall]_vars

\* ================================================================ claims
\* C1: with mutators that shade what they store and that handshake between
\* operations, the sweep never frees an object that is reachable through
\* strong fields from a global root or from a root of a live mutator.
NoReachableFreed == \A o \in Reachable : ostate[o] = "live"

\* SNode pointers a mutator can still use: its roots, and what the ctrie
\* operation it is inside has loaded
HeldSNodes(m) ==
    ((IF loc[m].depth > 0 THEN SeqToSet(loc[m].roots) ELSE {})
     \cup {tr[m].sn} \cup SNodesOf(tr[m].m) \cup SNodesOf(tr[m].pm)
     \cup SNodesOf(tr[m].des)) \ {NULL}

\* mutators whose channel collect() has taken from global.entrants
Admitted(m) == chan[m].st # "none" /\ m \notin SeqToSet(entrants)

\* C2: an SNode that has been deleted is neither in the ctrie nor held by a
\* mutator; what is on the red list has been removed from the ctrie; and
\* when the red list is deleted every admitted mutator has acknowledged the
\* handshake of the new epoch or has left.
RedListDeletionSafe ==
    /\ \A o \in Objs :
         (skey[o] # NoKey /\ ostate[o] = "freed") =>
            /\ o \notin TrieSNodes
            /\ \A m \in Mutators : o \notin HeldSNodes(m)
    /\ \A o \in SeqToSet(redlist) :
         ostate[o] = "live" /\ color[o] = RED /\ o \notin TrieSNodes
    /\ cpc = "D_reds" =>
         \A m \in Mutators :
            Admitted(m) =>
               \/ chan[m].abandoned
               \/ ~chan[m].pending /\ loc[m].WHITE = loc[Collector].WHITE

\* C2 witness: an SNode that was removed from the ctrie has been deleted
\* after a mutator interned the same string again.
RedListDeleted ==
    \E o \in removed :
       /\ ostate[o] = "freed"
       /\ \E m \in Mutators : hist[m].q2 = skey[o] /\ hist[m].v2 # NULL

\* no handshake is requested or under way and no ctrie operation is under way
Quiescent ==
    /\ loc[Collector].depth > 0
    /\ \A t \in Threads : ~chan[t].pending
    /\ \A m \in Mutators : mpc[m] = "idle"
    /\ tr[Collector].pc = "idle"

\* C3: at a handshake-quiescent instant no BLACK object has a strong field
\* that points to a WHITE object; the list nodes of the ctrie (TNode.sn,
\* LNode.sn) are among the objects.
NoBlackToWhite ==
    Quiescent =>
       /\ \A o \in Objs :
            (ostate[o] = "live" /\ color[o] = BLACK(Collector) /\ fld[o] # NULL)
               => color[fld[o]] # loc[Collector].WHITE
       /\ \A i \in TrieINodes : \A j \in 1..Len(main[i].list) :
            main[i].list[j].col = BLACK(Collector)
               => color[main[i].list[j].sn] # loc[Collector].WHITE

\* C4: two consecutive calls of one mutator that intern the same string,
\* with no handshake of that mutator between them, return the same SNode.
SameInternNoHandshake ==
    \A m \in Mutators :
       (hist[m].q1 # NoKey /\ hist[m].q1 = hist[m].q2 /\ hist[m].hs = 0)
          => hist[m].v1 = hist[m].v2

\* C5: the ctrie never holds two SNodes of one string that are both not
\* RED, and two SNodes of one string that emplace has returned and that
\* are not RED are the same SNode.
UniqueInterned ==
    /\ \A s1, s2 \in TrieSNodes :
         (s1 # s2 /\ skey[s1] = skey[s2]) => (color[s1] = RED \/ color[s2] = RED)
    /\ \A s1, s2 \in returned :
         (/\ skey[s1] = skey[s2]
          /\ ostate[s1] = "live" /\ ostate[s2] = "live"
          /\ color[s1] # RED /\ color[s2] # RED) => s1 = s2

\* no string but k has been interned
OnlyKey(k) == \A o \in Objs : skey[o] \in {NoKey, k}

\* C6: an SNode that a mutator turned from WHITE to BLACK in this cycle is
\* not turned RED by the sweep, is not removed from the ctrie, is not put
\* on the red list and is not deleted; when the mutator won while the
\* collector was sweeping, the sweep puts it on the black list; and when no
\* other string is interned it stays the one SNode of the ctrie and is what
\* every emplace of its string returns.
WeakLeafRace ==
    \A w \in won :
       LET s == w[1] IN
       /\ ostate[s] = "live"
       /\ color[s] # RED
       /\ s \notin SeqToSet(redlist)
       /\ s \notin removed
       /\ tr[Collector].k # s
       /\ (w[2] /\ cpc \in {"D_accept", "D_req", "D_self", "D_recv", "D_reds"})
             => s \in SeqToSet(blacklist)
       /\ OnlyKey(skey[s]) =>
            /\ TrieSNodes = {s}
            /\ \A m \in Mutators : hist[m].q2 = skey[s] => hist[m].v2 = s

\* C6 witness: a mutator won the upgrade while the collector was sweeping,
\* the sweep has met the SNode BLACK, and both mutators have interned its
\* string and hold it.
WeakLeafRaceWon ==
    \E w \in won :
       /\ w[2]
       /\ w[1] \in SeqToSet(blacklist)
       /\ \A m \in Mutators : hist[m].q2 = skey[w[1]] /\ hist[m].v2 = w[1]

\* C7: an emplace that found a RED SNode of its string installed a fresh
\* SNode in its place and returned that fresh SNode.
RedFoundInstallsFresh ==
    \A m \in Mutators :
       hist[m].red =>
          /\ hist[m].fresh
          /\ hist[m].v2 # NULL
          /\ skey[hist[m].v2] = hist[m].q2
          /\ hist[m].v2 # hist[m].old

\* a step of Ctrie::remove
RemoveMoves ==
    /\ cpc = "C_remove"
    /\ tr'[Collector].pc # tr[Collector].pc
         \/ tr'[Collector].path # tr[Collector].path

\* C8: an SNode for which remove has returned is not in the ctrie, in
\* whatever node, and never comes back; and a step of remove(k) takes no
\* SNode but k out of the ctrie.
RemovedStaysOut ==
    /\ [](\A s \in removed : s \notin TrieSNodes)
    /\ [][RemoveMoves => (TrieSNodes \ TrieSNodes') \subseteq {tr[Collector].k}]_vars

\* C8 witness: remove(S) has returned and an SNode of the same string, that
\* a mutator installed in the meantime, is in the ctrie.
RemovedAndReinterned ==
    \E s \in removed : \E s2 \in TrieSNodes : skey[s2] = skey[s]

\* C9: two calls of one mutator that intern the same string, one before
\* and one after one handshake of that mutator, return the same SNode.
SameInternAcrossHandshake ==
    \A m \in Mutators :
       (hist[m].q1 # NoKey /\ hist[m].q1 = hist[m].q2 /\ hist[m].hs = 1)
          => hist[m].v1 = hist[m].v2

\* C10: emplace(q) returns an SNode, that SNode holds the string q, and an
\* SNode of q that is not RED and that the descent found is what it returns.
EmplaceReturnsCanonical ==
    \A m \in Mutators :
       hist[m].q2 # NoKey =>
          /\ hist[m].v2 # NULL
          /\ skey[hist[m].v2] = hist[m].q2
          /\ hist[m].old # NULL => hist[m].v2 = hist[m].old

Survivors ==
    {o \in Objs : /\ ostate[o] = "live"
                  /\ \A t \in Threads :
                       /\ o \notin SeqToSet(loc[t].allocations)
                       /\ chan[t].st = "open"
                            => o \notin SeqToSet(chan[t].infants)}

\* C12: when the sweep ends every survivor is BLACK; the sweep and the flip
\* leave the stored colour of every survivor as it is; right after the flip
\* every survivor is WHITE; and WHITE changes only in the step from the
\* sweep to Phase D, which every cycle takes once, by its low bit.
EpochFlipRelabels ==
    /\ [](cpc = "C_sweep" /\ objects = <<>>
            => \A o \in Survivors : color[o] = BLACK(Collector))
    /\ [][cpc = "C_sweep" /\ objects' # objects /\ ostate' = ostate
            => color' = color]_vars
    /\ [][cpc = "C_sweep" /\ cpc' = "D_accept"
            => /\ color' = color
               /\ gWHITE' = Xor1(gWHITE)
               /\ loc'[Collector].WHITE = gWHITE'
               /\ \A o \in Survivors : color'[o] = gWHITE']_vars
    /\ [][gWHITE' # gWHITE \/ (cpc' = "D_accept" /\ cpc # "D_accept")
            => cpc = "C_sweep" /\ cpc' = "D_accept"]_vars

\* C13: when two cycles have been completed since the interned strings
\* lost their last reference, every one of their SNodes is deleted and the
\* ctrie is the empty CNode at the root again.
DroppedStringsFreed ==
    ncycle >= 2 =>
        /\ \A o \in Objs : skey[o] # NoKey => ostate[o] = "freed"
        /\ main[Root] = CNodeOf(EmptyArr)
        /\ TrieSNodes = {}

\* C14: a tableGet of key k that follows tableSet(k, v) on the same table
\* returns true and the value v, and one that follows tableDelete(k)
\* returns false, whatever calls came before.
SetGetRoundTrip ==
    tgot.t = tlast.t =>
        /\ tlast.op = "set" => tgot.ok /\ tgot.value = tlast.v
        /\ tlast.op = "delete" => ~tgot.ok

\* C14 witness: the array has grown to 16 entries, a tombstone is in it,
\* and the tableGet after a tableSet on that table has returned
GetAfterGrowth ==
    /\ tlast.op = "set" /\ tlast.t = "super" /\ tgot.t = "super" /\ tgot.ok
    /\ Capacity(Heap, "super") = 16
    /\ \E i \in 1..16 :
          tarr[tbl["super"].entries][i] = [key |-> NULL, value |-> "true"]

HeapNext == [tbl |-> tbl', arr |-> tarr']

\* C15: tableAddAll leaves the table from as it is and makes every entry
\* of from an entry of to; a later tableSet(to, m, v) makes tableGet(to, m)
\* return v and changes the result of no tableGet on from.
AddAllIndependent ==
    /\ [][tlast'.op = "addall" /\ tgot' = NoGot
            => /\ tbl'["super"] = tbl["super"]
               /\ \A a \in ArrIds :
                     a = tbl["super"].entries => tarr'[a] = tarr[a]
               /\ \A k \in TKeys :
                     tableGet(Heap, "super", k).ok
                        => tableGet(HeapNext, "sub", k)
                             = tableGet(Heap, "super", k)]_vars
    /\ [][tlast'.op = "set" /\ tlast'.t = "sub" /\ tgot' = NoGot
            => /\ tableGet(HeapNext, "sub", tlast'.k)
                    = [ok |-> TRUE, value |-> tlast'.v]
               /\ \A k \in TKeys :
                     tableGet(HeapNext, "super", k)
                        = tableGet(Heap, "super", k)]_vars

\* C15 witness: method 2 has come to the subclass by tableAddAll, method 1
\* has then been set there, and tableGet on the superclass has returned
\* another value for it
SubclassOverrides ==
    /\ tlast.op = "set" /\ tlast.t = "sub"
    /\ tableGet(Heap, "sub", 2).ok
    /\ tgot.t = "super" /\ tgot.ok /\ tgot.value # tlast.v

\* C16: store and exchange shade the new and the old value; a
\* compare-exchange shades expected and desired exactly when it succeeds;
\* load and a failed compare-exchange shade nothing, and the failed
\* compare-exchange leaves the field as it was.  A shade turns a WHITE
\* object GRAY and raises the thread's dirty flag.
WriteBarrier ==
    /\ [][\A m \in BarThreads :
            (mpc[m] \in {"bw2", "cas2"} /\ mpc'[m] = "idle") =>
                /\ \A o \in {reg[m].a, reg[m].b} \ {NULL} :
                       color'[o] # loc'[m].WHITE
                /\ bar'[m].shaded => loc'[m].dirty]_vars
    /\ [][\A m \in BarThreads : \A o \in Objs :
            (mpc'[m] # mpc[m] /\ color'[o] # color[o]) =>
                /\ o \in {reg[m].a, reg[m].b, reg'[m].b}
                /\ color[o] = loc[m].WHITE /\ color'[o] = GRAY
                /\ loc'[m].dirty /\ bar'[m].shaded]_vars
    /\ [][\A m \in BarThreads :
            (nops'[m] # nops[m] /\ bar'[m].op \in {"load", "casfail"}) =>
                /\ color' = color /\ fld' = fld /\ loc' = loc
                /\ ~bar'[m].shaded]_vars
    /\ [][\A m \in BarThreads :
            (nops'[m] # nops[m] /\ bar'[m].op = "cas") =>
                \E r \in Fields(m) :
                    /\ reg'[m].a = fld[r]
                    /\ fld' = [fld EXCEPT ![r] = reg'[m].b]]_vars

\* the thread's second call, a store made in the second epoch, has returned
\* after turning a WHITE object GRAY
ShadedByBarrier ==
    \E m \in BarThreads :
        /\ mpc[m] = "idle" /\ nops[m] = MaxOps
        /\ bar[m].op = "store" /\ bar[m].shaded
        /\ loc[m].WHITE = 1

\* C17: a nested enter() only increments depth; the outermost enter()
\* creates the channel, appends it to global.entrants and sets the channel's
\* and the thread's WHITE and ALLOC to the global ones; a channel is
\* published by an outermost enter() and by nothing else, so that a thread
\* holds a channel exactly while its depth is positive.
EnterReentrant ==
    /\ [][\A m \in Threads :
            loc'[m].depth > loc[m].depth =>
                IF loc[m].depth = 0
                THEN /\ loc'[m].depth = 1 /\ loc'[m].channel
                     /\ chan[m].st # "open"
                     /\ chan'[m] = [NoChannel EXCEPT !.st = "open",
                                                     !.WHITE = gWHITE,
                                                     !.ALLOC = gALLOC]
                     /\ loc'[m].WHITE = gWHITE /\ loc'[m].ALLOC = gALLOC
                     /\ entrants' = Append(entrants, m)
                     /\ \A t \in Threads \ {m} : chan'[t] = chan[t]
                ELSE /\ loc' = [loc EXCEPT ![m].depth = @ + 1]
                     /\ chan' = chan /\ entrants' = entrants]_vars
    /\ [][\A m \in Threads :
            (chan'[m].st = "open" /\ chan[m].st # "open") =>
                loc[m].depth = 0 /\ loc'[m].depth = 1]_vars
    /\ [][Len(entrants') > Len(entrants) =>
            \E m \in Threads :
                /\ loc[m].depth = 0 /\ loc'[m].depth = 1
                /\ entrants' = Append(entrants, m)]_vars
    /\ [](\A m \in Threads :
            /\ loc[m].depth > 0 <=> loc[m].channel
            /\ loc[m].channel => chan[m].st = "open" /\ ~chan[m].abandoned
            /\ Cardinality({i \in DOMAIN entrants : entrants[i] = m})
               + Cardinality({i \in DOMAIN mutators : mutators[i] = m}) <= 1)

\* a thread has entered and entered again: depth 2 with the one channel of
\* its outermost enter()
NestedInside ==
    \E m \in Mutators :
        /\ loc[m].depth = 2 /\ nops[m] = 2
        /\ loc[m].channel /\ chan[m].st = "open"

HandshakeProtocol ==
    /\ [][\A m \in Mutators :
            (mpc[m] = "idle" /\ mpc'[m] = "hs_notify") =>
                /\ chan[m].pending
                /\ loc'[m].WHITE = chan[m].WHITE
                /\ loc'[m].ALLOC = chan[m].ALLOC
                /\ chan'[m].dirty = loc[m].dirty /\ ~loc'[m].dirty
                /\ IF chan[m].request_infants
                   THEN /\ chan'[m].infants = loc[m].allocations
                        /\ loc'[m].allocations = <<>>
                   ELSE /\ chan'[m].infants = chan[m].infants
                        /\ loc'[m].allocations = loc[m].allocations
                /\ ~chan'[m].pending /\ ~chan'[m].request_infants
                /\ loc'[m].roots = loc[m].roots
                /\ color' = color]_vars
    /\ [][\A m \in Mutators :
            (mpc[m] = "hs_notify" /\ mpc'[m] # "hs_notify") =>
                /\ (asleep /\ Back(mutators2) = m) => ~asleep'
                /\ mpc'[m] = IF loc[m].roots = <<>> THEN "idle" ELSE "hs_shade"
                /\ chan' = chan /\ loc' = loc /\ color' = color]_vars
    /\ [][\A m \in Mutators :
            (mpc[m] = "hs_shade" /\ mpc'[m] = "idle") =>
                /\ \A r \in SeqToSet(loc[m].roots) :
                       color'[r] # loc'[m].WHITE
                /\ chan' = chan]_vars
    /\ [][\A m \in Mutators :
            (bar'[m].op = "handshake" /\ bar[m].op # "handshake") =>
                /\ ~chan[m].pending
                /\ chan' = chan /\ loc' = loc /\ color' = color
                /\ mpc' = mpc]_vars

\* a thread with a root has taken the WHITE of the second epoch from its
\* channel in a handshake and is back from it: nothing is pending, the root
\* is GRAY and the thread is dirty
ShadedRoots ==
    \E m \in Mutators :
        /\ mpc[m] = "idle" /\ loc[m].roots # <<>>
        /\ loc[m].WHITE = 1 /\ chan[m].WHITE = 1 /\ ~chan[m].pending
        /\ color[loc[m].roots[1]] = GRAY /\ loc[m].dirty

\* C20: a leave() with no enter() to match and the construction of an
\* object outside enter() ... leave() abort at the call: no thread's depth
\* falls below 0, and a thread whose depth is 0 holds no object it has
\* allocated.
MisuseAborts ==
    \A m \in Mutators :
        /\ loc[m].depth >= 0
        /\ loc[m].depth = 0 => loc[m].allocations = <<>>

\* C21: under any sequence of push_back, push_front, pop_front and
\* pop_back the deque holds the elements of the abstract sequence in its
\* order: empty() is true exactly when the sequence is empty, front() and
\* pop_front() yield its head, and push_front(x) followed by front() yields x.
DequeFifo ==
    /\ [](/\ empty(dq) <=> dhist.abs = <<>>
          /\ Elements(dq) = dhist.abs
          /\ dhist.abs # <<>> => front(dq) = Head(dhist.abs))
    /\ [][(dhist'.op = "pop_front" /\ dhist' # dhist) =>
            /\ dhist'.x = Head(dhist.abs)
            /\ Elements(dq') = Tail(dhist.abs)]_vars
    /\ [][(dhist'.op = "push_front" /\ dhist' # dhist) =>
            /\ front(dq') = dhist'.x
            /\ Elements(dq') = <<dhist'.x>> \o Elements(dq)]_vars
    /\ [][(dhist'.op = "push_back" /\ dhist' # dhist) =>
            Elements(dq') = Append(Elements(dq), dhist'.x)]_vars

\* pop_front() has just yielded an element while _end, having gone round the
\* ring of two nodes, is back in the first node, which _begin had left
WrappedAround ==
    /\ dhist.op = "pop_front" /\ dhist.abs # <<>>
    /\ dq.b.n = 2 /\ dq.e.n = 1 /\ dq.node[2].next = 1
    /\ Cardinality(DqFree(dq)) = MaxDqNodes - 2

\* C22: push_back(x) followed by back() yields x, and a following
\* pop_back() removes that element and restores the element sequence that
\* was there before the push.
PushBackThenBack ==
    /\ dhist.op = "back" => dhist.x = dhist.abs[Len(dhist.abs)]
    /\ dhist.op = "pop_pushed" =>
          /\ Elements(dq) = dhist.before
          /\ dhist.abs = dhist.before


\* the values of the nodes linked after node n, in the order of the list
QValues(q, n) == [i \in 1..(Len(QFrom(q, n)) - 1) |->
                    q.value[QFrom(q, n)[i + 1]]]

\* C23: MichaelScottQueue under any interleaving of push and pop: a pushed
\* value is returned by at most one pop, no value is lost (the values of
\* the returned pushes are those returned by a pop or still behind head),
\* the values pushed by one thread are returned in that thread's push
\* order, a pop returns false only in a step
\* in which head's next is null, and the node whose next is null is always
\* reachable from tail
QueueLinearizable ==
    [][ /\ \A i, j \in 1..Len(msq'.out) :
            i # j => msq'.out[i] # msq'.out[j]
        /\ QRange(msq'.in) =
               QRange(msq'.out) \cup QRange(QValues(msq', msq'.head))
        /\ \A i, j \in 1..Len(msq'.out) :
            (i < j /\ msq'.out[i][1] = msq'.out[j][1])
                => msq'.out[i][2] < msq'.out[j][2]
        /\ \A t \in Mutators :
            (msq.call[t].pc = "pop_next" /\ msq'.call[t].pc = "idle")
                => msq.next[msq.head] = NULL
        /\ \E n \in QRange(QFrom(msq', msq'.tail)) : msq'.next[n] = NULL
      ]_vars

\* C24: Phase-A postcondition.  In the step in which the collector receives
\* the last Phase-A acknowledgement, every thread inside enter/leave (those
\* that entered after the admission included) has local ALLOC equal to the
\* collector's BLACK, every object that is WHITE or GRAY is in the
\* collector's object list, and an object outside that list is BLACK
PhaseAPostcondition ==
    [][ (cpc = "A_recv" /\ cpc' = "B_pass") =>
          /\ \A t \in Threads :
                loc'[t].channel => loc'[t].ALLOC = BLACK(Collector)
          /\ \A o \in Objs :
                (ostate'[o] = "live"
                   /\ color'[o] \in {loc'[Collector].WHITE, GRAY})
                    => o \in SeqToSet(objects')
          /\ \A o \in Objs :
                (ostate'[o] = "live" /\ o \notin SeqToSet(objects'))
                    => color'[o] = BLACK(Collector)
      ]_vars

\* C25: the collector leaves the marking loop for the sweep only in the
\* step that ends a handshake round which followed a completed scanning
\* pass and in which every channel asked (live or abandoned), the
\* collector's own included, was read and none was read dirty; a round in
\* which a channel was read dirty ends in another scanning pass
SweepAfterCleanRound ==
    [][ /\ (cpc # "C_sweep" /\ cpc' = "C_sweep") =>
              /\ cpc = "B_recv"
              /\ rnd'.pass /\ ~rnd'.dirty
              /\ Collector \in rnd'.read
              /\ rnd'.read = rnd'.asked
        /\ (cpc = "B_recv" /\ cpc' # "B_recv" /\ rnd'.dirty) =>
              cpc' = "B_pass"
      ]_vars

\* C25 witness: the sweep begins after a round in which a channel found
\* abandoned and a live one were both read clean
SweepingAfterRound ==
    /\ cpc = "C_sweep"
    /\ rnd.pass /\ ~rnd.dirty
    /\ \E t \in rnd.read : chan[t].st = "deleted"
    /\ \E t \in rnd.read \ {Collector} : chan[t].st = "open"

\* C27: the dirty flag of a channel the collector finds abandoned is not
\* discarded.  The flag is owed a scanning pass when the collector deletes
\* the channel without taking the flag into its own dirty flag; the
\* collector never enters the sweep while a pass is owed, and in the step
\* that deletes an abandoned channel its infants join the object list
DirtyNeverDiscarded ==
    [][ /\ (cpc # "C_sweep" /\ cpc' = "C_sweep") => ~rnd'.owed
        /\ \A t \in Threads :
            (chan[t].st = "open" /\ chan'[t].st = "deleted") =>
              /\ chan[t].dirty => (loc'[Collector].dirty \/ rnd'.owed
                                     \/ cpc' = "B_pass")
              /\ SeqToSet(chan[t].infants) \subseteq SeqToSet(objects')
      ]_vars

\* C27 witness: Phase A deleted an abandoned channel whose dirty flag was
\* set without taking the flag, and the scanning pass has begun
DroppedFlagScanned ==
    /\ cpc = "B_pass"
    /\ rnd.owed
    /\ \E t \in Mutators : chan[t].st = "deleted"

\* C28: every object the sweep visits is WHITE, BLACK or RED and never
\* GRAY; the visit deletes it, appends it to the black list or appends it
\* to the red list (an SNode turned RED joins the red list when its removal
\* from the ctrie returns), so that no visited object is dropped; when the
\* sweep has ended every object that exists is BLACK or RED
SweepDropsNothing ==
    [][ /\ (cpc = "C_sweep" /\ objects # <<>> /\ objects' = Tail(objects)) =>
            LET o == Head(objects) IN
              /\ color[o] \in {loc[Collector].WHITE, BLACK(Collector), RED}
              /\ \/ ostate'[o] = "freed"
                 \/ blacklist' = Append(blacklist, o)
                 \/ redlist' = Append(redlist, o)
                 \/ cpc' = "C_remove" /\ tr'[Collector].k = o
        /\ (cpc = "C_remove" /\ cpc' = "C_sweep") =>
              redlist' = Append(redlist, tr[Collector].k)
        /\ (cpc = "C_sweep" /\ cpc' = "D_accept") =>
              \A o \in Objs : ostate[o] = "live" =>
                  color[o] \in {BLACK(Collector), RED}
      ]_vars

ShadeOnlyWhite ==
    [][ (bar["M1"].op = "none" /\ bar'["M1"].op = "shade") =>
          LET o == reg'["M1"].a
              w == loc["M1"].WHITE
              same == loc'["M1"].dirty = loc["M1"].dirty
          IN
            /\ \A p \in Objs \ {o} : color'[p] = color[p]
            /\ \A t \in Threads :
                 loc'[t] = [loc[t] EXCEPT !.dirty = loc'[t].dirty]
            /\ loc'[Collector] = loc[Collector]
            /\ o = NULL => same
            /\ o # NULL =>
                 /\ (color[o] = w /\ skey[o] = NoKey) =>
                        color'[o] = GRAY /\ loc'["M1"].dirty
                 /\ (color[o] = w /\ skey[o] # NoKey) =>
                        color'[o] = Xor1(w) /\ same
                 /\ color[o] # w => color'[o] = color[o] /\ same
      ]_vars

\* C30 witness: a call has turned a WHITE leaf BLACK and the caller's dirty
\* flag is not set
LeafShadedBlack ==
    /\ bar["M1"].op = "shade" /\ bar["M1"].shaded
    /\ reg["M1"].a = 1 /\ skey[1] # NoKey
    /\ color[1] = Xor1(loc["M1"].WHITE)
    /\ ~loc["M1"].dirty

\* the collector is in the marking loop of Phase B
Marking == cpc \in {"B_pass", "B_scan", "B_accept", "B_req", "B_self",
                    "B_recv"}

SlotsOf(h, t, k) ==
    IF h.tbl[t].entries = NULL THEN {}
    ELSE {i \in 1..Capacity(h, t) : h.arr[h.tbl[t].entries][i].key = k}

\* C31: tableDelete of a key the table holds writes a tombstone (null key,
\* value true) into the slot of the key and changes no other slot; after a
\* tableDelete or a tableSet of key k, tableGet of every other key yields
\* what it yielded before, also for keys that probe through the slot of k;
\* after tableSet(k, v), tableGet(k) yields v and exactly one slot holds k: a
\* tombstone is reused only when no later slot of the probe path holds k
TombstoneKeepsChains ==
    [][/\ tlast'.op = "delete" =>
            LET t == tlast'.t
                k == tlast'.k
                v == tbl[t].entries
            IN /\ \A k2 \in TKeys \ {k} :
                     tableGet(HeapNext, t, k2) = tableGet(Heap, t, k2)
               /\ ~tableGet(HeapNext, t, k).ok
               /\ tbl' = tbl
               /\ tableGet(Heap, t, k).ok =>
                    LET i == findEntry(tarr[v], k) + 1 IN
                    /\ tarr[v][i].key = k
                    /\ tarr'[v] = [tarr[v] EXCEPT
                                     ![i] = [key |-> NULL, value |-> "true"]]
               /\ ~tableGet(Heap, t, k).ok => tarr' = tarr
       /\ tlast'.op = "set" =>
            LET t == tlast'.t
                k == tlast'.k
            IN /\ \A k2 \in TKeys \ {k} :
                     tableGet(HeapNext, t, k2) = tableGet(Heap, t, k2)
               /\ tableGet(HeapNext, t, k) = [ok |-> TRUE, value |-> tlast'.v]
               /\ Cardinality(SlotsOf(HeapNext, t, k)) = 1
               /\ (SlotsOf(Heap, t, k) # {} /\ Capacity(HeapNext, t) = Capacity(Heap, t))
                    => SlotsOf(HeapNext, t, k) = SlotsOf(Heap, t, k)]_vars

\* C31 witness: key 2 has been set again while a tombstone lies in the slot
\* it hashes to, before the slot that holds it
SetPastTombstone ==
    /\ tlast.op = "set" /\ tlast.k = 2
    /\ tbl[tlast.t].entries # NULL
    /\ LET data == tarr[tbl[tlast.t].entries]
           home == (Hash(2) % Len(data)) + 1
       IN /\ data[home] = [key |-> NULL, value |-> "true"]
          /\ data[(home % Len(data)) + 1].key = 2

\* the slots of the array of table t in heap h that hold a tombstone, and
\* those that are empty
Tombstones(h, t) ==
    IF h.tbl[t].entries = NULL THEN {}
    ELSE {i \in 1..Capacity(h, t) :
            h.arr[h.tbl[t].entries][i] = [key |-> NULL, value |-> "true"]}

Empties(h, t) ==
    IF h.tbl[t].entries = NULL THEN {}
    ELSE {i \in 1..Capacity(h, t) :
            h.arr[h.tbl[t].entries][i] = EmptyEntry}

\* the keys table t holds in heap h, each with its value
LiveEntries(h, t) ==
    IF h.tbl[t].entries = NULL THEN {}
    ELSE {<<e.key, e.value>> :
            e \in {h.arr[h.tbl[t].entries][i] : i \in 1..Capacity(h, t)}
                  \ {EmptyEntry, [key |-> NULL, value |-> "true"]}}

RECURSIVE IsPowerOfTwo(_)
IsPowerOfTwo(n) == n = 1 \/ (n > 1 /\ n % 2 = 0 /\ IsPowerOfTwo(n \div 2))

\* C32: a table without an array has count 0; the capacity of an array is a
\* power of two, count is the number of its live entries and tombstones, is
\* at most 0.75 times the capacity, and at least one slot is empty (null
\* key, nil value), which ends the probe loop of findEntry. A tableSet that
\* does not grow the array increments count only when it fills an empty
\* slot; a step that grows the array publishes one without tombstones, with
\* count the number of its live entries: after a tableSet it holds every
\* entry the old one held and the entry set, after a tableAddAll every key
\* the old one held and every entry of the table added.
LoadFactorKept ==
    /\ [](\A t \in Tables :
            /\ tbl[t].entries = NULL => tbl[t].count = 0
            /\ tbl[t].entries # NULL =>
                 /\ IsPowerOfTwo(Capacity(Heap, t))
                 /\ tbl[t].count = Cardinality(LiveEntries(Heap, t))
                                   + Cardinality(Tombstones(Heap, t))
                 /\ 4 * tbl[t].count <= 3 * Capacity(Heap, t)
                 /\ Empties(Heap, t) # {})
    /\ [][\A t \in Tables :
            /\ (tlast'.op = "set" /\ tlast'.t = t
                /\ Capacity(HeapNext, t) = Capacity(Heap, t)) =>
                 /\ tbl'[t].entries = tbl[t].entries
                 /\ tbl'[t].count =
                      IF Empties(HeapNext, t) # Empties(Heap, t)
                      THEN tbl[t].count + 1 ELSE tbl[t].count
                 /\ Tombstones(HeapNext, t) \subseteq Tombstones(Heap, t)
            /\ Capacity(HeapNext, t) # Capacity(Heap, t) =>
                 /\ Capacity(HeapNext, t) > Capacity(Heap, t)
                 /\ tbl'[t].entries # tbl[t].entries
                 /\ Tombstones(HeapNext, t) = {}
                 /\ tbl'[t].count = Cardinality(LiveEntries(HeapNext, t))
                 /\ tlast'.op = "set" =>
                      /\ Capacity(HeapNext, t)
                           = GROW_CAPACITY(Capacity(Heap, t))
                      /\ LiveEntries(HeapNext, t) =
                           {e \in LiveEntries(Heap, t) : e[1] # tlast'.k}
                           \cup {<<tlast'.k, tlast'.v>>}
                 /\ tlast'.op = "addall" =>
                      /\ {e[1] : e \in LiveEntries(Heap, t)}
                           \subseteq {e[1] : e \in LiveEntries(HeapNext, t)}
                      /\ LiveEntries(Heap, "super")
                           \subseteq LiveEntries(HeapNext, t)
                      ]_vars

\* C32 witness: a tableSet has grown an array of 8 entries to one of 16
\* entries; count is less than the 6 entries and tombstones the old array
\* held, so tombstones were left behind
GrownPastTombstones ==
    /\ tlast.op = "set"
    /\ Capacity(Heap, tlast.t) = 2 * GROW_CAPACITY(0)
    /\ 4 * (tbl[tlast.t].count + 1) <= 3 * GROW_CAPACITY(0)

\* the nodes of the ring that hold no element
EmptyNodes(d) ==
    {n \in DqNodes \ DqFree(d) :
        \A i \in 0..(DqCount - 1) : d.node[n].el[i] = Junk}

\* the nodes from node n along next to node m
RECURSIVE DqSpan(_, _, _, _)
DqSpan(d, n, m, k) ==
    IF n = m \/ k = 0 THEN {n} ELSE {n} \cup DqSpan(d, d.node[n].next, m, k - 1)

\* the nodes of the ring outside the span from the node of _begin to the
\* node of _end
SpareNodes(d) ==
    IF d.b = NullPtr THEN {}
    ELSE (DqNodes \ DqFree(d)) \ DqSpan(d, d.b.n, d.e.n, MaxDqNodes)

\* C33: a deque that holds an element has at most two nodes without
\* element, one on each side of the occupied nodes; after shrink_to_fit the
\* ring has at most one node outside the span from _begin to _end, the
\* element sequence, front() and empty() are what they were, and the ring
\* is linked both ways
CacheAtMostOne ==
    /\ (dq.b # NullPtr /\ ~empty(dq)) => Cardinality(EmptyNodes(dq)) <= 2
    /\ dhist.op = "shrink" =>
          /\ Elements(dq) = dhist.abs
          /\ empty(dq) <=> dhist.abs = <<>>
          /\ ~empty(dq) => front(dq) = dhist.abs[1]
          /\ Cardinality(SpareNodes(dq)) <= 1
          /\ \A n \in DqNodes \ DqFree(dq) :
                /\ dq.node[n].next \in DqNodes \ DqFree(dq)
                /\ dq.node[dq.node[n].next].prev = n

\* C33 amended: a pop deletes no node and a push allocates at most one (and
\* the first node of a new deque), so
\* the ring keeps every node it has allocated, however many hold no
\* element; shrink_to_fit deletes the nodes outside the span from _begin to
\* _end when there are two or more of them and none otherwise; after it at
\* most one such node is left, the element sequence, front() and empty()
\* are what they were, and the ring is linked both ways
CacheKeptUntilShrink ==
    /\ [](dhist.op = "shrink" =>
            /\ Elements(dq) = dhist.abs
            /\ empty(dq) <=> dhist.abs = <<>>
            /\ ~empty(dq) => front(dq) = dhist.abs[1]
            /\ Cardinality(SpareNodes(dq)) <= 1
            /\ \A n \in DqNodes \ DqFree(dq) :
                  /\ dq.node[n].next \in DqNodes \ DqFree(dq)
                  /\ dq.node[dq.node[n].next].prev = n)
    /\ [][/\ (dq' # dq /\ dhist'.op \in {"pop_front", "pop_back", "pop_pushed"})
               => DqFree(dq') = DqFree(dq)
          /\ dhist'.op \in {"push_back", "push_front"} =>
               /\ DqFree(dq') \subseteq DqFree(dq)
               /\ Cardinality(DqFree(dq) \ DqFree(dq'))
                    <= IF dq.b = NullPtr THEN 2 ELSE 1
          /\ (dhist'.op = "shrink" /\ dhist'.pushed = dhist.pushed
              /\ dhist'.abs = dhist.abs /\ dq.b # NullPtr) =>
               DqFree(dq') \ DqFree(dq) =
                  IF Cardinality(SpareNodes(dq)) >= 2 THEN SpareNodes(dq)
                  ELSE {}]_vars

\* C33 witness: shrink_to_fit has deleted two or more nodes of a deque that
\* holds elements
ShrunkExcess ==
    /\ dhist.op = "shrink" /\ dhist.x >= 2
    /\ dhist.abs # <<>>

\* the collector takes the step
CollectorMoves ==
    \/ cpc' # cpc \/ ci' # ci
    \/ mutators' # mutators \/ mutators2' # mutators2

\* C34: whenever the collector is in a request loop of Phase A, B or D, no
\* channel it has still to ask has pending set; pending of a channel is set
\* only by the collector, in a request loop and on the channel it asks, and
\* cleared only by the thread of the channel, in handshake() or leave()
OneRequestOutstanding ==
    /\ [](cpc \in {"A_req", "B_req", "D_req"} =>
            \A i \in 1..Len(mutators) : ~chan[mutators[i]].pending)
    /\ [][\A c \in Threads :
            /\ (~chan[c].pending /\ chan'[c].pending) =>
                 /\ cpc \in {"A_req", "B_req", "D_req"}
                 /\ mutators # <<>> /\ c = Back(mutators)
                 /\ ~chan[c].abandoned
                 /\ mpc' = mpc
            /\ (chan[c].pending /\ ~chan'[c].pending) =>
                 IF c = Collector
                 THEN cpc \in {"A_groots", "B_self", "D_self"} /\ mpc' = mpc
                 ELSE /\ ~CollectorMoves
                      /\ mpc[c] = "idle"
                      /\ \A m \in Threads \ {c} :
                            chan'[m] = chan[m] /\ loc'[m] = loc[m]]_vars

\* C34 witness: in a later round of Phase B the collector is about to ask a
\* mutator's channel that it asked and that acknowledged before
AskedAgain ==
    /\ cpc = "B_req" /\ rnd.reports > 0
    /\ mutators # <<>> /\ Back(mutators) \in Mutators
    /\ ~chan[Back(mutators)].abandoned
    /\ ~chan[Back(mutators)].pending

\* C35: a channel on which a handshake will hand over infants (pending and
\* request_infants set, not abandoned) has an empty infant list; in the
\* request loop and the receive loop of Phase D every channel of the loop
\* that is not abandoned has an empty infant list; and so has every such
\* channel the collector is about to ask for infants in Phase A
InfantsTakenBeforeRequest ==
    /\ \A m \in Threads :
          (chan[m].st = "open" /\ ~chan[m].abandoned
           /\ chan[m].pending /\ chan[m].request_infants)
             => chan[m].infants = <<>>
    /\ cpc \in {"A_req", "D_req"} =>
          \A i \in 1..Len(mutators) :
             ~chan[mutators[i]].abandoned => chan[mutators[i]].infants = <<>>
    /\ cpc \in {"D_self", "D_recv"} =>
          \A i \in 1..Len(mutators2) :
             ~chan[mutators2[i]].abandoned
                => chan[mutators2[i]].infants = <<>>

\* C35 witness: the collector receives the Phase-D acknowledgement of a
\* mutator that holds allocations, one object at least having been allocated
\* since the collector started, while the collector holds objects handed over
AcknowledgedWithAllocations ==
    /\ cpc = "D_recv" /\ mutators2 # <<>>
    /\ LET c == Back(mutators2) IN
          /\ c \in Mutators
          /\ ~chan[c].abandoned /\ ~chan[c].pending
          /\ loc[c].allocations # <<>>
          /\ objects \o whitelist \o blacklist # <<>>
          /\ Cardinality({o \in Objs : ostate[o] # "unused"}) > InitObjs

\* the number of places of sequence q that hold o
CountIn(q, o) == Cardinality({i \in 1..Len(q) : q[i] = o})

RECURSIVE SumOver(_, _)
SumOver(S, f) ==
    IF S = {} THEN 0
    ELSE LET t == CHOOSE x \in S : TRUE IN f[t] + SumOver(S \ {t}, f)

\* the number of places object o has in the allocation lists of the
\* threads, the infant lists of the channels and the collector's lists; the
\* SNode the sweep has popped and is removing from the ctrie is in flight
Places(o) ==
    SumOver(Threads, [t \in Threads |-> CountIn(loc[t].allocations, o)])
    + SumOver(Threads, [t \in Threads |-> CountIn(chan[t].infants, o)])
    + CountIn(objects, o) + CountIn(whitelist, o)
    + CountIn(blacklist, o) + CountIn(redlist, o)
    + (IF cpc = "C_remove" /\ tr[Collector].k = o THEN 1 ELSE 0)

\* C36: every object that is allocated and not deleted has exactly one
\* place in the allocation lists, the infant lists and the collector's
\* lists, and an object that is deleted or not yet allocated has none, so
\* that no list can delete it a second time
ObjectsConserved ==
    \A o \in Objs : Places(o) = IF ostate[o] = "live" THEN 1 ELSE 0


\* C37: no thread accesses a channel after the collector has deleted it: a
\* mutator that has released the channel mutex in leave() and has yet to call
\* notify_all on the channel's condition variable still finds the channel
\* allocated.
ChannelAliveAtNotify ==
    \A m \in Mutators : mpc[m] = "lv_notify" => chan[m].st = "open"

\* the collector deletes a channel only when it has read abandoned in it
DeletedOnlyAbandoned ==
    [][\A t \in Threads :
         chan[t].st = "open" /\ chan'[t].st = "deleted" => chan[t].abandoned]_vars


\* C38: colour changes are monotone within an epoch: no step of any thread
\* changes a live object from the collector's current BLACK to the
\* collector's current WHITE, whatever WHITE the thread itself holds.
BlackStaysBlack ==
    [][\A o \in Objs :
         (ostate[o] = "live" /\ color[o] = BLACK(Collector))
            => color'[o] # loc[Collector].WHITE]_vars


\* the collector is past the receive loop of Phase D (gc.cpp 568-597) and has
\* not flipped WHITE again (gc.cpp 525-530)
AfterPhaseD ==
    cpc \notin {"start", "D_accept", "D_req", "D_self", "D_recv",
                "abort", "aborted"}

\* C39: from the end of the Phase-D handshake round until the next epoch
\* flip, so throughout marking and the sweep, the local WHITE of every
\* mutator in the collectible state equals the collector's WHITE, and so
\* does the WHITE an entering mutator would copy from the global record.
WhiteAgreed ==
    AfterPhaseD =>
       /\ gWHITE = loc[Collector].WHITE
       /\ \A m \in Mutators :
            loc[m].depth > 0 => loc[m].WHITE = loc[Collector].WHITE

\* the second epoch is being marked or swept and a mutator that entered
\* after the last admission, copying WHITE from the global record, is
\* still to be admitted
EnteredAfterFlip ==
    /\ cpc \in {"B_pass", "B_scan", "C_sweep"}
    /\ loc[Collector].WHITE = 1
    /\ \E m \in Mutators :
         /\ loc[m].depth > 0
         /\ m \in SeqToSet(entrants)
    /\ \E m \in Mutators :
         /\ loc[m].depth > 0
         /\ m \notin SeqToSet(entrants)


\* the positions of a CNode's array that hold a branch
Branches(arr) == {d \in Digits : arr[d].t # "N"}

\* C40: under every interleaving of emplace and remove the main node of the
\* root INode is a CNode, so clean and cleanParent are entered only below
\* the root, with a parent; and toContracted is applied at lev > 0 only to a
\* CNode that has a branch: every CNode below the root has one, and the
\* CNode that SNode::_erase builds with CNode::removed below the root has one.
CtrieShape ==
    /\ main[Root].k = "C"
    /\ \A i \in TrieINodes \ {Root} :
         main[i].k = "C" => Branches(main[i].arr) # {}
    /\ \A t \in Threads :
         LET r == tr[t]
             lev == Len(r.path) - 1
         IN /\ r.pc \in {"cl_load", "cl_cas", "cp_load", "cp_cas"} => lev > 0
            /\ (r.pc = "sr_cas" /\ lev > 0)
                  => Branches(cremoved(r.m.arr, Digit(skey[r.k], lev))) # {}
            /\ (r.pc \in {"cl_cas", "cp_cas"} /\ lev > 1 /\ r.des.k = "C")
                  => Branches(r.des.arr) # {}

\* below the root an SNode was removed and the CNode left with one SNode was
\* contracted to a TNode, while a mutator is inside emplace
EntombedBelowRoot ==
    /\ \E i \in TrieINodes \ {Root} : main[i].k = "T"
    /\ \E m \in Mutators : tr[m].op = "emplace"
    /\ cpc = "C_remove"

====
